---- MODULE Spec2Model ----
(***************************************************************************)
(* Model of fabrictestbed_extensions/fablib/network_service.py:            *)
(* the L2 service type resolver, the per-service IP allocator and the      *)
(* NetworkService facade (interface mutation, type migration, metadata).   *)
(***************************************************************************)
EXTENDS Integers, Sequences, FiniteSets, TLC

VARIABLES
    topo,        \* the FIM service object held by slice.topology under the service name
    user_data,   \* the "user_data" property stored on that object
    interfaces,  \* NetworkService.interfaces of the facade made by the factory
    if_data,     \* per interface: its fablib_data (addr, auto), VLAN tag and network ref
    stable,      \* slice.isStable(): the reservation subsystem reports the sliver
    handles,     \* NetworkService instances bound to the service (each has its own lock)
    lock,        \* handle -> thread holding NetworkService.lock, or NoThread
    th,          \* thread -> position and locals inside allocate_ip / free_ip
    rs_in,       \* arguments of __calculate_l2_nstype
    rs_out,      \* its outcome
    vl_in,       \* arguments of __validate_nstype
    vl_out       \* its outcome

vars == <<topo, user_data, interfaces, if_data, stable, handles, lock, th,
          rs_in, rs_out, vl_in, vl_out>>

(***************************************************************************)
(* Python values.  Objects and strings are kept apart, because the code    *)
(* compares ipaddress objects with strings and stores str(x) in the blob:  *)
(*   None                      -> None                                     *)
(*   IPv4Address(a)            -> a             (a \in Addr)               *)
(*   IPv4Network (a subnet)    -> SubnetObj, Subnet29                     *)
(*   str(x) of an object x     -> x + StrOffset                            *)
(*   "None"                    -> StrNone                                  *)
(*   "<name>.subnet", "<name>.gateway" -> PlaceholderSubnet/Gateway        *)
(***************************************************************************)
None == -1
Absent == -2
AddrBits == 3
Addr == 0 .. (2^AddrBits - 1)
SubnetObj == 230
Subnet29 == 229
StrOffset == 1000
StrNone == 999
PlaceholderSubnet == 998
PlaceholderGateway == 997

\* str(x)
Str(x) == IF x = None THEN StrNone ELSE IF x < StrNone - 100 THEN x + StrOffset ELSE x

\* ipaddress.ip_address(x) succeeds
IsAddress(x) == x \in Addr \/ (x - StrOffset) \in Addr
ip_address(x) == IF x \in Addr THEN x ELSE x - StrOffset

\* ipaddress.ip_network(x) succeeds
IsNetwork(x) == x \in {SubnetObj, Subnet29, SubnetObj + StrOffset, Subnet29 + StrOffset}
ip_network(x) == IF x \in {Subnet29, Subnet29 + StrOffset} THEN Subnet29 ELSE SubnetObj

\* type(subnet) is IPv4Network
IsNetworkObject(x) == x \in {SubnetObj, Subnet29}

\* The subnet the reservation reports: a /30 whose network address is SubnetBase.
SubnetBase == 4
SubnetSize == 4
\* A second network for services whose subnet is set by set_subnet: a /29
\* whose network address is Subnet29Base.
Subnet29Base == 0
Subnet29Size == 8
network_address(n) == IF n = Subnet29 THEN Subnet29Base ELSE SubnetBase
SubnetAddresses(n) ==
    IF n = Subnet29 THEN Subnet29Base .. (Subnet29Base + Subnet29Size - 1)
    ELSE SubnetBase .. (SubnetBase + SubnetSize - 1)
SliverSubnet == SubnetObj
SliverGateway == SubnetBase + 1
SliverSite == "s1"

Truthy(x) == x # None

(***************************************************************************)
(* Service types                                                           *)
(***************************************************************************)
L2Types == {"L2Bridge", "L2PTP", "L2STS"}
L3Types == {"FABNetv4", "FABNetv6", "FABNetv4Ext", "FABNetv6Ext", "L3VPN"}
SpecialTypes == {"PortMirror"}
NoType == "None"

NoExc == "ok"
Sites == {"s1", "s2", "s3"}
Models == {"NIC_Basic", "NIC_ConnectX_6"}
NoHost == "nohost"

(***************************************************************************)
(* __calculate_l2_nstype: one pass over the interfaces accumulating the    *)
(* site set, the facility-port flag and count and the NIC_Basic count,     *)
(* then the decision.  Outcome: [ret |-> type or NoType, exc |-> ...].     *)
(***************************************************************************)
RECURSIVE ScanInterfaces(_, _, _)
ScanInterfaces(ifs, k, acc) ==
    IF k > Len(ifs) THEN acc
    ELSE ScanInterfaces(ifs, k + 1,
           [sites |-> acc.sites \cup {ifs[k].site},
            includes_facility_port |-> acc.includes_facility_port \/ ifs[k].facility,
            facility_port_interfaces |->
                acc.facility_port_interfaces + (IF ifs[k].facility THEN 1 ELSE 0),
            basic_nic_count |->
                acc.basic_nic_count + (IF ifs[k].model = "NIC_Basic" THEN 1 ELSE 0)])

ScanStart == [sites |-> {}, includes_facility_port |-> FALSE,
              facility_port_interfaces |-> 0, basic_nic_count |-> 0]

\* the condition of line 179-181 with "< 2" read as "<= 2"
PtpConditionOffByOne(s, ero_enabled) ==
    /\ (s.includes_facility_port /\ s.facility_port_interfaces <= 2) \/ ero_enabled
    /\ s.basic_nic_count = 0

\* the condition of line 179-181 without the includes_facility_port flag
PtpConditionNoFacilityFlag(s, ero_enabled) ==
    /\ s.facility_port_interfaces < 2 \/ ero_enabled
    /\ s.basic_nic_count = 0

\* the condition of line 179-181 without "and not basic_nic_count"
PtpConditionAnyNic(s, ero_enabled) ==
    (s.includes_facility_port /\ s.facility_port_interfaces < 2) \/ ero_enabled

PtpCondition(s, ero_enabled) ==
    /\ (s.includes_facility_port /\ s.facility_port_interfaces < 2) \/ ero_enabled
    /\ s.basic_nic_count = 0

\* the resolver with a default type in place of the raise of line 186-189
calculate_l2_nstype_Default(ifs, ero_enabled) ==
    LET s == ScanInterfaces(ifs, 1, ScanStart)
        n == Cardinality(s.sites)
    IN  IF n <= 1 THEN [ret |-> "L2Bridge", exc |-> NoExc]
        ELSE IF n = 2 /\ PtpCondition(s, ero_enabled)
        THEN [ret |-> "L2PTP", exc |-> NoExc]
        ELSE [ret |-> "L2STS", exc |-> NoExc]

calculate_l2_nstype(ifs, ero_enabled) ==
    LET s == ScanInterfaces(ifs, 1, ScanStart)
        n == Cardinality(s.sites)
    IN  IF n <= 1 THEN [ret |-> "L2Bridge", exc |-> NoExc]
        ELSE IF n = 2 THEN
            IF PtpCondition(s, ero_enabled) THEN [ret |-> "L2PTP", exc |-> NoExc]
            ELSE IF Len(ifs) >= 2 THEN [ret |-> "L2STS", exc |-> NoExc]
            ELSE [ret |-> NoType, exc |-> NoExc]
        ELSE [ret |-> NoType, exc |-> "Exception"]

(***************************************************************************)
(* Resolver on its own: the arguments are drawn from all interface lists   *)
(* of at most MaxResolverIfaces interfaces.                                *)
(***************************************************************************)
MaxResolverIfaces == 3

ResolverIface == [site : Sites, model : Models, facility : BOOLEAN,
                  node : {"n"}, host : {NoHost}]

ResolverLists == UNION {[1 .. n -> ResolverIface] : n \in 0 .. MaxResolverIfaces}

NotRun == [ret |-> NoType, exc |-> "notrun"]

IdleTopo == [exists |-> FALSE, type |-> NoType, interface_list |-> <<>>, ero |-> FALSE]

(***************************************************************************)
(* __validate_nstype.  Outcome: [exc, reasons]; reasons is the list the    *)
(* raised exception carries, each reason a pair <<kind, subject>>.         *)
(***************************************************************************)
SitesOf(ifs) == {ifs[k].site : k \in DOMAIN ifs}
NicsOf(ifs) == {ifs[k].model : k \in DOMAIN ifs}

\* nodes_per_site[site]: one count per interface whose node is no FacilityPort
nodes_per_site(ifs, site) ==
    Cardinality({k \in DOMAIN ifs : ifs[k].site = site /\ ~ifs[k].facility})

\* the host loop without the test of line 270 for an unbound node
RECURSIVE HostScanBoundOnly(_, _, _)
HostScanBoundOnly(ifs, k, acc) ==
    IF k > Len(ifs) THEN acc
    ELSE IF ifs[k].model = "NIC_Basic" /\ nodes_per_site(ifs, ifs[k].site) > 1
            /\ ifs[k].host # NoHost
         THEN IF ifs[k].host \in acc.hosts
              THEN HostScanBoundOnly(ifs, k + 1,
                     [acc EXCEPT !.reasons = Append(@, <<"duphost", ifs[k].host>>)])
              ELSE HostScanBoundOnly(ifs, k + 1,
                     [acc EXCEPT !.hosts = @ \cup {ifs[k].host}])
         ELSE HostScanBoundOnly(ifs, k + 1, acc)

RECURSIVE HostScan(_, _, _)
HostScan(ifs, k, acc) ==
    IF k > Len(ifs) THEN acc
    ELSE IF ifs[k].model = "NIC_Basic" /\ nodes_per_site(ifs, ifs[k].site) > 1
         THEN IF ifs[k].host = NoHost
              THEN HostScan(ifs, k + 1,
                     [acc EXCEPT !.reasons = Append(@, <<"unbound", ifs[k].node>>)])
              ELSE IF ifs[k].host \in acc.hosts
              THEN HostScan(ifs, k + 1,
                     [acc EXCEPT !.reasons = Append(@, <<"duphost", ifs[k].host>>)])
              ELSE HostScan(ifs, k + 1, [acc EXCEPT !.hosts = @ \cup {ifs[k].host}])
         ELSE HostScan(ifs, k + 1, acc)

Raise(reasons) == [exc |-> "Exception", reasons |-> reasons]
Valid == [exc |-> NoExc, reasons |-> <<>>]

\* the validator with the type test before the empty-list return of line 210
validate_nstype_TypeFirst(type, ifs) ==
    IF type \notin {"L2Bridge", "L2PTP", "L2STS"} THEN Raise(<< <<"unknown", type>> >>)
    ELSE IF Len(ifs) = 0 THEN Valid
    ELSE IF type = "L2Bridge" THEN
        IF Cardinality(SitesOf(ifs)) > 1 THEN Raise(<< <<"sites", type>> >>) ELSE Valid
    ELSE IF type = "L2PTP" THEN
        IF Cardinality(SitesOf(ifs)) # 2 THEN Raise(<< <<"sites", type>> >>)
        ELSE IF "NIC_Basic" \in NicsOf(ifs) THEN Raise(<< <<"basic", type>> >>)
        ELSE Valid
    ELSE
        LET first == IF Cardinality(SitesOf(ifs)) # 2
                     THEN << <<"sites", type>> >> ELSE <<>>
            all == IF Len(ifs) > 2
                   THEN HostScan(ifs, 1, [hosts |-> {}, reasons |-> first]).reasons
                   ELSE first
        IN  IF Len(all) > 0 THEN Raise(all) ELSE Valid

\* the validator raising at the first violation of an L2STS service
validate_nstype_FirstOnly(type, ifs) ==
    IF Len(ifs) = 0 THEN Valid
    ELSE IF type = "L2Bridge" THEN
        IF Cardinality(SitesOf(ifs)) > 1 THEN Raise(<< <<"sites", type>> >>) ELSE Valid
    ELSE IF type = "L2PTP" THEN
        IF Cardinality(SitesOf(ifs)) # 2 THEN Raise(<< <<"sites", type>> >>)
        ELSE IF "NIC_Basic" \in NicsOf(ifs) THEN Raise(<< <<"basic", type>> >>)
        ELSE Valid
    ELSE IF type = "L2STS" THEN
        LET first == IF Cardinality(SitesOf(ifs)) # 2
                     THEN << <<"sites", type>> >> ELSE <<>>
            all == IF Len(ifs) > 2
                   THEN HostScan(ifs, 1, [hosts |-> {}, reasons |-> first]).reasons
                   ELSE first
        IN  IF Len(all) > 0 THEN Raise(<<all[1]>>) ELSE Valid
    ELSE Raise(<< <<"unknown", type>> >>)

validate_nstype(type, ifs) ==
    IF Len(ifs) = 0 THEN Valid
    ELSE IF type = "L2Bridge" THEN
        IF Cardinality(SitesOf(ifs)) > 1 THEN Raise(<< <<"sites", type>> >>) ELSE Valid
    ELSE IF type = "L2PTP" THEN
        IF Cardinality(SitesOf(ifs)) # 2 THEN Raise(<< <<"sites", type>> >>)
        ELSE IF "NIC_Basic" \in NicsOf(ifs) THEN Raise(<< <<"basic", type>> >>)
        ELSE Valid
    ELSE IF type = "L2STS" THEN
        LET first == IF Cardinality(SitesOf(ifs)) # 2
                     THEN << <<"sites", type>> >> ELSE <<>>
            all == IF Len(ifs) > 2
                   THEN HostScan(ifs, 1, [hosts |-> {}, reasons |-> first]).reasons
                   ELSE first
        IN  IF Len(all) > 0 THEN Raise(all) ELSE Valid
    ELSE Raise(<< <<"unknown", type>> >>)

(***************************************************************************)
(* Interfaces of the slice (owned by nodes, referenced by the service).    *)
(***************************************************************************)
Ifaces == {"a", "b", "c", "f", "k"}

IfaceAttr(i) ==
    CASE i = "a" -> [site |-> "s1", node |-> "n1", model |-> "NIC_ConnectX_6",
                     facility |-> FALSE, host |-> NoHost]
      [] i = "b" -> [site |-> "s2", node |-> "n2", model |-> "NIC_ConnectX_6",
                     facility |-> FALSE, host |-> NoHost]
      [] i = "c" -> [site |-> "s3", node |-> "n3", model |-> "NIC_ConnectX_6",
                     facility |-> FALSE, host |-> NoHost]
      [] i = "f" -> [site |-> "s1", node |-> "fp1", model |-> "NIC_ConnectX_6",
                     facility |-> TRUE, host |-> NoHost]
      [] i = "k" -> [site |-> "s2", node |-> "n4", model |-> "NIC_Basic",
                     facility |-> FALSE, host |-> NoHost]

\* the Interface objects' attributes, in list order
Attrs(list) == [k \in DOMAIN list |-> IfaceAttr(list[k])]

\* fablib_data and VLAN tag each interface starts with; network tells whether
\* the Interface object's "network" attribute refers to the service
IfaceInit(i) ==
    CASE i = "a" -> [addr |-> Str(SubnetBase + 2), auto |-> FALSE, vlan |-> None,
                     network |-> FALSE]
      [] i = "b" -> [addr |-> None, auto |-> TRUE, vlan |-> None,
                     network |-> FALSE]
      [] i = "c" -> [addr |-> None, auto |-> FALSE, vlan |-> None,
                     network |-> FALSE]
      [] i = "f" -> [addr |-> None, auto |-> FALSE, vlan |-> 200,
                     network |-> FALSE]
      [] i = "k" -> [addr |-> None, auto |-> FALSE, vlan |-> None,
                     network |-> FALSE]

(***************************************************************************)
(* Sequence helpers (list.remove, "in", de-duplication)                    *)
(***************************************************************************)
Range(s) == {s[k] : k \in DOMAIN s}
In(x, s) == \E k \in DOMAIN s : s[k] = x

RECURSIVE RemoveFirst(_, _)
RemoveFirst(s, x) ==
    IF s = <<>> THEN <<>>
    ELSE IF Head(s) = x THEN Tail(s)
    ELSE <<Head(s)>> \o RemoveFirst(Tail(s), x)

RECURSIVE Dedup(_)
Dedup(s) ==
    IF s = <<>> THEN <<>>
    ELSE LET d == Dedup(SubSeq(s, 1, Len(s) - 1))
         IN  IF In(s[Len(s)], d) THEN d ELSE Append(d, s[Len(s)])

(***************************************************************************)
(* The metadata blob.  user_data is the dict stored (as JSON) in the FIM   *)
(* object's user_data property; its "fablib_data" entry is the blob:       *)
(*   instantiated, mode     : strings, "absent" when the key is missing    *)
(*   sub                    : the key "subnet" is present                  *)
(*   subnet, gateway        : stored strings, Absent when the key is missing*)
(*   has_ips, ips           : key "allocated_ips" present, and its list    *)
(***************************************************************************)
EmptyFD == [instantiated |-> "absent", mode |-> "absent", sub |-> FALSE,
            subnet |-> Absent, gateway |-> Absent, has_ips |-> FALSE, ips |-> <<>>]

NoUserData == [other |-> 0, has_fd |-> FALSE, fd |-> EmptyFD]

\* The state one facade call works on.
World == [topo |-> topo, user_data |-> user_data, interfaces |-> interfaces,
          if_data |-> if_data, stable |-> stable]

LayerOf(type) == IF type \in L3Types THEN "L3" ELSE "L2"
get_layer(w) == LayerOf(w.topo.type)
get_type(w) == w.topo.type

\* Python evaluates an argument, or the right-hand side of an assignment,
\* once: e is evaluated and Op works on its value
Bind(e, Op(_)) == CHOOSE r \in {Op(v) : v \in {e}} : TRUE

(***************************************************************************)
(* json.dumps / json.loads.  The property holds JSON text, not the dict:   *)
(* a string s is written as the quoted token s + JsonOffset, None as the   *)
(* token null, a missing key stays missing, and an address or network      *)
(* object is not serialisable (TypeError).  The text has the dict's shape. *)
(***************************************************************************)
JsonOffset == 2000
JsonNull == -3

IsString(v) == v >= PlaceholderGateway
IsJsonValue(v) == v = Absent \/ v = None \/ IsString(v)

\* a writer that stringifies instead of serialising: None becomes "None"
json_value_Str(v) ==
    IF v = Absent THEN Absent ELSE Str(v) + JsonOffset

json_value(v) ==
    IF v = Absent THEN Absent ELSE IF v = None THEN JsonNull ELSE v + JsonOffset

json_parse(t) ==
    IF t = Absent THEN Absent ELSE IF t = JsonNull THEN None ELSE t - JsonOffset

\* the strings the "instantiated" and "mode" entries take ("absent": no key)
Quote(s) ==
    CASE s = "True" -> "\"True\""
      [] s = "False" -> "\"False\""
      [] s = "manual" -> "\"manual\""
      [] OTHER -> s

Unquote(t) ==
    CASE t = "\"True\"" -> "True"
      [] t = "\"False\"" -> "False"
      [] t = "\"manual\"" -> "manual"
      [] OTHER -> t

Serialisable(ud) ==
    /\ IsJsonValue(ud.fd.subnet)
    /\ IsJsonValue(ud.fd.gateway)
    /\ \A k \in DOMAIN ud.fd.ips : IsJsonValue(ud.fd.ips[k])

\* the dict entry by entry: strings through qs, values through jv
MapBlob(ud, qs(_), jv(_)) ==
    [other |-> ud.other, has_fd |-> ud.has_fd,
     fd |-> [instantiated |-> qs(ud.fd.instantiated), mode |-> qs(ud.fd.mode),
             sub |-> ud.fd.sub, subnet |-> jv(ud.fd.subnet),
             gateway |-> jv(ud.fd.gateway), has_ips |-> ud.fd.has_ips,
             ips |-> [k \in 1 .. Len(ud.fd.ips) |-> jv(ud.fd.ips[k])]]]

\* Outcome [text, exc]
json_dumps(user_data_dict) ==
    Bind(user_data_dict, LAMBDA ud :
        IF ~Serialisable(ud) THEN [text |-> ud, exc |-> "TypeError"]
        ELSE [text |-> MapBlob(ud, Quote, json_value), exc |-> NoExc])

json_loads(json_text) ==
    Bind(json_text, LAMBDA text : MapBlob(text, Unquote, json_parse))

get_user_data(w) == json_loads(w.user_data)

\* json.dumps raises before set_property: the property keeps its value
set_user_data(w, ud) ==
    Bind(json_dumps(ud), LAMBDA r :
        IF r.exc # NoExc THEN w ELSE [w EXCEPT !.user_data = r.text])

get_fablib_data(w) ==
    Bind(get_user_data(w), LAMBDA ud : IF ud.has_fd THEN ud.fd ELSE EmptyFD)

set_fablib_data(w, fd) ==
    Bind(w, LAMBDA self :
        set_user_data(self, [get_user_data(self) EXCEPT !.has_fd = TRUE, !.fd = fd]))

\* init_fablib_data writing "instantiated": "True"
init_fablib_data_Instantiated(w) ==
    set_fablib_data(w, [EmptyFD EXCEPT !.instantiated = "True", !.mode = "manual"])

init_fablib_data(w) ==
    set_fablib_data(w, [EmptyFD EXCEPT !.instantiated = "False", !.mode = "manual"])

is_instantiated(w) == get_fablib_data(w).instantiated = "True"

set_instantiated(w, instantiated) ==
    Bind(w, LAMBDA self :
        set_fablib_data(self, [get_fablib_data(self) EXCEPT
                                 !.instantiated = IF instantiated THEN "True" ELSE "False"]))

\* get_sliver(): the sliver is there once the slice is stable
HasSliver(w) == w.stable

NoSite == "nosite"
get_site(w) == IF HasSliver(w) THEN SliverSite ELSE NoSite

get_subnet(w) ==
    Bind(w, LAMBDA self :
        IF is_instantiated(self) THEN
            IF get_layer(self) = "L3" THEN (IF HasSliver(self) THEN SliverSubnet ELSE None)
            ELSE Bind(get_fablib_data(self), LAMBDA fd :
                    IF fd.sub /\ fd.subnet # Absent /\ Truthy(fd.subnet) /\ IsNetwork(fd.subnet)
                    THEN ip_network(fd.subnet) ELSE None)
        ELSE PlaceholderSubnet)

get_gateway(w) ==
    Bind(w, LAMBDA self :
        IF is_instantiated(self) THEN
            IF get_layer(self) = "L3" THEN (IF HasSliver(self) THEN SliverGateway ELSE None)
            ELSE Bind(get_fablib_data(self), LAMBDA fd :
                    IF fd.sub /\ fd.gateway # Absent /\ IsAddress(fd.gateway)
                    THEN ip_address(fd.gateway) ELSE None)
        ELSE PlaceholderGateway)

\* the parsed list; [] when a key is missing or an entry does not parse
get_allocated_ips(w) ==
    Bind(get_fablib_data(w), LAMBDA fd :
        IF fd.sub /\ fd.has_ips /\ \A k \in DOMAIN fd.ips : IsAddress(fd.ips[k])
        THEN [k \in DOMAIN fd.ips |-> ip_address(fd.ips[k])]
        ELSE <<>>)

set_subnet(w, subnet) ==
    Bind(w, LAMBDA self :
        set_fablib_data(self, [get_fablib_data(self) EXCEPT
                                 !.sub = TRUE, !.subnet = Str(subnet),
                                 !.has_ips = TRUE, !.ips = <<>>]))

set_gateway(w, gateway) ==
    Bind(w, LAMBDA self :
        set_fablib_data(self, [get_fablib_data(self) EXCEPT
                                 !.sub = TRUE, !.gateway = Str(gateway)]))

\* Outcome [w, exc]: KeyError when the blob has no "allocated_ips" list
set_allocated_ip(w, addr) ==
    Bind(w, LAMBDA self :
        Bind(get_fablib_data(self), LAMBDA fd :
            IF ~(fd.sub /\ fd.has_ips) THEN [w |-> self, exc |-> "KeyError"]
            ELSE [w |-> set_fablib_data(self, [fd EXCEPT !.ips = Append(@, Str(addr))]),
                  exc |-> NoExc]))

set_allocated_ips(w, allocated_ips) ==
    Bind(w, LAMBDA self :
        Bind(allocated_ips, LAMBDA ips :
            set_fablib_data(self, [get_fablib_data(self) EXCEPT
                                     !.sub = TRUE, !.has_ips = TRUE,
                                     !.ips = [k \in DOMAIN ips |-> Str(ips[k])]])))

\* "for host in subnet": the first address, in ascending order, that is not the
\* network address and not in allocated_ips; None when the loop ends
RECURSIVE FirstFree(_, _, _)
FirstFree(subnet, host, allocated_ips) ==
    IF host \notin SubnetAddresses(subnet) THEN None
    ELSE IF host # network_address(subnet) /\ ~In(host, allocated_ips) THEN host
    ELSE FirstFree(subnet, host + 1, allocated_ips)

\* Outcome [w, ret, exc].  The lock is taken on entry and released by "finally".
allocate_ip(w, addr) ==
    Bind(w, LAMBDA self :
        Bind(get_subnet(self), LAMBDA subnet :
            Bind(get_allocated_ips(self), LAMBDA allocated_ips :
                Bind(IF Truthy(addr)
                     THEN (IF ~In(addr, allocated_ips) THEN addr ELSE None)
                     ELSE IF IsNetworkObject(subnet)
                     THEN FirstFree(subnet, network_address(subnet), allocated_ips)
                     ELSE None,
                     LAMBDA host :
                        IF host = None THEN [w |-> self, ret |-> None, exc |-> NoExc]
                        ELSE Bind(set_allocated_ip(self, host), LAMBDA r :
                                [w |-> r.w, ret |-> IF r.exc = NoExc THEN host ELSE None,
                                 exc |-> r.exc])))))

free_ip(w, addr) ==
    Bind(w, LAMBDA self :
        Bind(get_allocated_ips(self), LAMBDA allocated_ips :
            set_allocated_ips(self, IF In(addr, allocated_ips)
                                    THEN RemoveFirst(allocated_ips, addr)
                                    ELSE allocated_ips)))

config(w) ==
    Bind(IF ~is_instantiated(w) THEN set_instantiated(w, TRUE) ELSE w, LAMBDA w1 :
        IF get_layer(w1) = "L3" THEN
            Bind(set_subnet(w1, get_subnet(w1)), LAMBDA w2 :
                Bind(set_gateway(w2, get_gateway(w2)), LAMBDA w3 :
                    set_allocated_ip(w3, get_gateway(w3)).w))
        ELSE w1)

(***************************************************************************)
(* The topology store (slice.topology) and the facade's interface list.    *)
(* interface_list is the list of interfaces attached to the FIM object;    *)
(* connecting an attached interface and disconnecting one that is not      *)
(* attached leave it unchanged.                                            *)
(***************************************************************************)
connect_interface(w, i) ==
    IF In(i, w.topo.interface_list) THEN w
    ELSE [w EXCEPT !.topo.interface_list = Append(@, i)]

disconnect_interface(w, i) ==
    [w EXCEPT !.topo.interface_list = RemoveFirst(@, i)]

\* topology.add_network_service: a new object of the type, no ERO, no user data
add_network_service(w, nstype, fim_interfaces) ==
    [w EXCEPT !.topo = [exists |-> TRUE, type |-> nstype,
                        interface_list |-> Dedup(fim_interfaces), ero |-> FALSE],
              !.user_data = NoUserData]

remove_network_service(w) ==
    [w EXCEPT !.topo = IdleTopo, !.user_data = NoUserData]

\* get_interfaces(): self.interfaces is rebuilt from the FIM object when it is
\* None or empty; the list returned is self.interfaces itself (None is <<>> here)
get_interfaces(w) ==
    IF w.interfaces = <<>> THEN [w EXCEPT !.interfaces = w.topo.interface_list] ELSE w

RECURSIVE DisconnectAll(_, _)
DisconnectAll(w, list) ==
    IF list = <<>> THEN w
    ELSE DisconnectAll(disconnect_interface(w, Head(list)), Tail(list))

\* "for ifs in self.get_interfaces(): ifs.network = None"
RECURSIVE OrphanAll(_, _)
OrphanAll(w, list) ==
    IF list = <<>> THEN w
    ELSE OrphanAll([w EXCEPT !.if_data[Head(list)].network = FALSE], Tail(list))

\* delete up to line 1283: the state in which remove_network_service is called
delete_orphan(w) ==
    Bind(get_interfaces(w), LAMBDA w1 : OrphanAll(w1, w1.interfaces))

\* delete
delete(w) == remove_network_service(delete_orphan(w))

\* Interface.get_network(): the interface caches a reference to the service
\* it is attached to
get_network(w, i) ==
    IF In(i, w.topo.interface_list) THEN [w EXCEPT !.if_data[i].network = TRUE] ELSE w

\* __replace_network_service without the set_user_data of line 1200
replace_network_service_NoRestore(w, nstype) ==
    Bind(get_interfaces(w), LAMBDA w1 :
        Bind(remove_network_service(DisconnectAll(w1, w1.interfaces)), LAMBDA w3 :
            add_network_service(w3, nstype, w1.interfaces)))

\* __replace_network_service
replace_network_service(w, nstype) ==
    Bind(get_interfaces(w), LAMBDA w1 :
        Bind(DisconnectAll(w1, w1.interfaces), LAMBDA w2 :
            Bind(get_user_data(w2), LAMBDA saved :
                Bind(remove_network_service(w2), LAMBDA w3 :
                    set_user_data(add_network_service(w3, nstype, w1.interfaces),
                                  saved)))))

\* Interface.get_ip_addr(): the address the interface's fablib_data holds
get_ip_addr(w, i) ==
    IF IsAddress(w.if_data[i].addr) THEN ip_address(w.if_data[i].addr) ELSE None

Ok(w) == [w |-> w, exc |-> NoExc]
Fail(w, e) == [w |-> w, exc |-> e]

\* the tail of add_interface, from line 1231: address allocation, then the
\* L3 connect
AddInterfaceAllocate(w, i) ==
    Bind(w, LAMBDA self :
        LET addr == self.if_data[i].addr
            auto == self.if_data[i].auto
        IN  Bind(IF Truthy(get_subnet(self))
                 THEN IF Truthy(addr) THEN allocate_ip(self, addr)
                      ELSE IF auto THEN allocate_ip(self, None)
                      ELSE [w |-> self, ret |-> Absent, exc |-> NoExc]
                 ELSE [w |-> self, ret |-> Absent, exc |-> NoExc],
                 LAMBDA a :
                    Bind(IF a.ret = Absent THEN a.w
                         ELSE [a.w EXCEPT !.if_data[i].addr = Str(a.ret)],
                         LAMBDA w1 :
                            IF a.exc # NoExc THEN Fail(a.w, a.exc)
                            ELSE IF get_layer(w1) = "L3" THEN Ok(connect_interface(w1, i))
                            ELSE Ok(w1))))

\* add_interface without the site check of lines 1227-1229
add_interface_NoSiteCheck(w, i) ==
    IF get_type(w) = "PortMirror" THEN Fail(w, "Exception")
    ELSE
    Bind([get_interfaces(w) EXCEPT !.interfaces = Append(@, i)], LAMBDA w1 :
        LET curr_nstype == get_type(w1)
        IN  IF get_layer(w1) = "L2" THEN
                Bind(calculate_l2_nstype(Attrs(w1.interfaces), w1.topo.ero), LAMBDA r :
                    IF r.exc # NoExc THEN Fail(w1, r.exc)
                    ELSE IF curr_nstype # r.ret
                    THEN AddInterfaceAllocate(replace_network_service(w1, r.ret), i)
                    ELSE AddInterfaceAllocate(connect_interface(w1, i), i))
            ELSE AddInterfaceAllocate(w1, i))

\* add_interface.  Outcome [w, exc]; w is the state the call leaves behind,
\* also when it raises.
add_interface(w, i) ==
    IF get_type(w) = "PortMirror" THEN Fail(w, "Exception")
    ELSE
    Bind([get_interfaces(w) EXCEPT !.interfaces = Append(@, i)], LAMBDA w1 :
        LET curr_nstype == get_type(w1)
        IN  IF get_layer(w1) = "L2" THEN
                Bind(calculate_l2_nstype(Attrs(w1.interfaces), w1.topo.ero), LAMBDA r :
                    IF r.exc # NoExc THEN Fail(w1, r.exc)
                    ELSE IF curr_nstype # r.ret
                    THEN AddInterfaceAllocate(replace_network_service(w1, r.ret), i)
                    ELSE AddInterfaceAllocate(connect_interface(w1, i), i))
            ELSE IF is_instantiated(w1) /\ IfaceAttr(i).site # get_site(w1)
            THEN Fail(w1, "Exception")
            ELSE AddInterfaceAllocate(w1, i))

\* remove_interface
remove_interface(w, i) ==
    Bind([get_interfaces(free_ip(w, get_ip_addr(w, i)))
             EXCEPT !.interfaces = RemoveFirst(@, i)], LAMBDA w1 :
        LET curr_nstype == get_type(w1)
        IN  IF get_layer(w1) = "L2" THEN
                Bind(calculate_l2_nstype(Attrs(w1.interfaces), w1.topo.ero), LAMBDA r :
                    IF r.exc # NoExc THEN Fail(w1, r.exc)
                    ELSE IF curr_nstype # r.ret
                    THEN Ok(disconnect_interface(replace_network_service(w1, r.ret), i))
                    ELSE Ok(disconnect_interface(w1, i)))
            ELSE Ok(disconnect_interface(w1, i)))

\* set_l2_route_hops; feasible is the verdict of validate_requested_ero_path
set_l2_route_hops(w, hops_given, feasible) ==
    IF ~hops_given THEN Ok(w)
    ELSE Bind(get_interfaces(w), LAMBDA w1 :
            IF Len(w1.interfaces) # 2 \/ get_type(w1) \notin {"L2STS", "L2PTP"}
            THEN Fail(w1, "Exception")
            ELSE IF ~feasible THEN Fail(w1, "Exception")
            ELSE Bind(calculate_l2_nstype(Attrs(w1.interfaces), TRUE), LAMBDA r :
                    IF r.exc # NoExc THEN Fail(w1, r.exc)
                    ELSE Ok([w1 EXCEPT !.topo.type = r.ret, !.topo.ero = TRUE])))

(***************************************************************************)
(* Factories                                                               *)
(***************************************************************************)
\* __new_network_service: the FIM object, then a facade (interfaces = None)
\* whose user data is set and whose blob is initialised
new_network_service(w, nstype, list, ud_other) ==
    Bind([add_network_service(w, nstype, list) EXCEPT !.interfaces = <<>>], LAMBDA w2 :
        init_fablib_data(set_user_data(w2, [NoUserData EXCEPT !.other = ud_other])))

\* the VLAN defaults giving "100" to both interfaces whenever one has no tag
SetDefaultVlans_NoMatch(w, list) ==
    LET vlan1 == w.if_data[list[1]].vlan
        vlan2 == w.if_data[list[2]].vlan
    IN  IF vlan1 = None \/ vlan2 = None
        THEN [w EXCEPT !.if_data[list[1]].vlan = 100, !.if_data[list[2]].vlan = 100]
        ELSE w

\* the VLAN defaults of new_l2network for an L2PTP service
SetDefaultVlans(w, list) ==
    LET vlan1 == w.if_data[list[1]].vlan
        vlan2 == w.if_data[list[2]].vlan
    IN  IF vlan1 = None /\ vlan2 = None
        THEN [w EXCEPT !.if_data[list[1]].vlan = 100, !.if_data[list[2]].vlan = 100]
        ELSE IF vlan1 = None /\ vlan2 # None
        THEN [w EXCEPT !.if_data[list[1]].vlan = vlan2]
        ELSE IF vlan1 # None /\ vlan2 = None
        THEN [w EXCEPT !.if_data[list[2]].vlan = vlan1]
        ELSE w

\* new_l2network; type is NoType for "None", else the requested type name
\* new_l2network up to line 441: the type (inferred or pinned) and its
\* validation, on the interfaces' attributes.  Outcome [ret, exc].
new_l2network_check(type, ifs) ==
    LET r == IF type = NoType THEN calculate_l2_nstype(ifs, FALSE)
             ELSE IF type \in L2Types THEN [ret |-> type, exc |-> NoExc]
             ELSE [ret |-> NoType, exc |-> "Exception"]
    IN  IF r.exc # NoExc THEN r
        ELSE IF validate_nstype(r.ret, ifs).exc # NoExc
        THEN [ret |-> NoType, exc |-> "Exception"]
        ELSE r

\* new_l2network with the VLAN defaults of lines 443-460 applied before the
\* validation of line 441
new_l2network_VlansFirst(w, list, type, ud_other) ==
    LET r0 == IF type = NoType THEN calculate_l2_nstype(Attrs(list), FALSE)
              ELSE IF type \in L2Types THEN [ret |-> type, exc |-> NoExc]
              ELSE [ret |-> NoType, exc |-> "Exception"]
        w1 == IF r0.exc = NoExc /\ r0.ret = "L2PTP" /\ Len(list) >= 2
              THEN SetDefaultVlans(w, list) ELSE w
        r == new_l2network_check(type, Attrs(list))
    IN  IF r.exc # NoExc THEN Fail(w1, r.exc)
        ELSE Ok(new_network_service(w1, r.ret, list, ud_other))

new_l2network(w, list, type, ud_other) ==
    LET r == new_l2network_check(type, Attrs(list))
    IN  IF r.exc # NoExc THEN Fail(w, r.exc)
        ELSE LET w1 == IF r.ret = "L2PTP" /\ Len(list) # 0
                       THEN SetDefaultVlans(w, list) ELSE w
             IN  Ok(new_network_service(w1, r.ret, list, ud_other))

L3TypeOf(type) ==
    CASE type = "IPv6" -> "FABNetv6"
      [] type = "IPv4" -> "FABNetv4"
      [] type = "IPv4Ext" -> "FABNetv4Ext"
      [] type = "IPv6Ext" -> "FABNetv6Ext"
      [] type = "L3VPN" -> "L3VPN"
      [] OTHER -> NoType

new_l3network(w, list, type, ud_other) ==
    IF L3TypeOf(type) = NoType THEN Fail(w, "Exception")
    ELSE Ok(new_network_service(w, L3TypeOf(type), list, ud_other))

\* new_portmirror_service; the arguments are abstracted to what the checks
\* read: name_is_str, direction_is_str, receive_interface (an interface or
\* "none"), direction (lower-cased)
new_portmirror_service(w, name_is_str, direction_is_str, receive_interface, direction) ==
    IF ~name_is_str THEN Fail(w, "Exception")
    ELSE IF ~direction_is_str THEN Fail(w, "Exception")
    ELSE IF receive_interface = "none" THEN Fail(w, "Exception")
    ELSE IF direction \notin {"rx", "tx", "both"} THEN Fail(w, "Exception")
    ELSE LET w1 == add_network_service(w, "PortMirror", <<receive_interface>>)
             w2 == [w1 EXCEPT !.interfaces = <<>>]
         IN  Ok(init_fablib_data(w2))

(***************************************************************************)
(* The facade as a state machine: one action per public operation.         *)
(***************************************************************************)
MaxNewIfaces == 2      \* interfaces passed to a factory
MaxInterfaces == 3     \* length of the facade's interface list
MaxAllocated == 3      \* length of the stored allocated_ips list

NewLists ==
    {l \in UNION {[1 .. n -> Ifaces] : n \in 0 .. MaxNewIfaces} :
        \A j, k \in DOMAIN l : j # k => l[j] # l[k]}

\* addresses callers pass: the gateway, the next host, one outside the subnet
AddrInputs == {SliverGateway, SubnetBase + 2, SubnetBase - 3}

NoThread == 0
NumThreads == 2
NumHandles == 2
Threads == 1 .. NumThreads
Handles == 1 .. NumHandles

IdleThread == [pc |-> "idle", h |-> 1, op |-> "none", addr |-> None,
               allocated_ips |-> <<>>, host |-> None, fd |-> EmptyFD,
               ret |-> None, exc |-> NoExc,
               iface |-> "none", nstype |-> NoType, cont |-> "done"]

NoThreads ==
    /\ handles = {1}
    /\ lock = [h \in Handles |-> NoThread]
    /\ th = [t \in Threads |-> IdleThread]

NoResolver ==
    /\ rs_in = [interfaces |-> <<>>, ero_enabled |-> FALSE]
    /\ rs_out = NotRun

NotValidated == [exc |-> "notrun", reasons |-> <<>>]

NoValidator ==
    /\ vl_in = [type |-> NoType, interfaces |-> <<>>]
    /\ vl_out = NotValidated

Init ==
    /\ topo = IdleTopo
    /\ user_data = NoUserData
    /\ interfaces = <<>>
    /\ if_data = [i \in Ifaces |-> IfaceInit(i)]
    /\ stable = FALSE
    /\ NoThreads
    /\ NoResolver
    /\ NoValidator

\* the call leaves world w behind
Becomes(w) ==
    /\ topo' = w.topo
    /\ user_data' = w.user_data
    /\ interfaces' = w.interfaces
    /\ if_data' = w.if_data
    /\ stable' = w.stable
    /\ UNCHANGED <<handles, lock, th, rs_in, rs_out, vl_in, vl_out>>

CanAppendIp == Len(get_fablib_data(World).ips) < MaxAllocated

NewL2Network(Lists) ==
    /\ ~topo.exists
    /\ \E list \in Lists, type \in L2Types \cup {NoType, "L2"}, other \in {1} :
          Becomes(new_l2network(World, list, type, other).w)

NewL3Network(Lists) ==
    /\ ~topo.exists
    /\ \E list \in Lists, type \in {"IPv4", "L3"}, other \in {1} :
          Becomes(new_l3network(World, list, type, other).w)

NewPortMirrorService ==
    /\ ~topo.exists
    /\ \E name_is_str \in BOOLEAN, direction_is_str \in BOOLEAN,
          recv \in {"a", "none"}, direction \in {"rx", "both", "up"} :
          Becomes(new_portmirror_service(World, name_is_str, direction_is_str,
                                         recv, direction).w)

AddInterface(i) ==
    /\ topo.exists
    /\ Len(interfaces) < MaxInterfaces
    /\ CanAppendIp
    /\ Becomes(add_interface(World, i).w)

RemoveInterface(i) ==
    /\ topo.exists
    /\ Becomes(remove_interface(World, i).w)

SetL2RouteHops ==
    /\ topo.exists
    /\ \E hops_given \in BOOLEAN, feasible \in BOOLEAN :
          Becomes(set_l2_route_hops(World, hops_given, feasible).w)

Config ==
    /\ topo.exists
    /\ Becomes(config(World))

SetGateway(g) ==
    /\ topo.exists
    /\ Becomes(set_gateway(World, g))

SetSubnet ==
    /\ topo.exists
    /\ Becomes(set_subnet(World, SubnetObj))

SetInstantiated(b) ==
    /\ topo.exists
    /\ Becomes(set_instantiated(World, b))

SetAllocatedIp(a) ==
    /\ topo.exists
    /\ CanAppendIp
    /\ Becomes(set_allocated_ip(World, a).w)

AllocateIp(a) ==
    /\ topo.exists
    /\ CanAppendIp
    /\ Becomes(allocate_ip(World, a).w)

FreeIp(a) ==
    /\ topo.exists
    /\ Becomes(free_ip(World, a))

\* the reservation subsystem reports the slice stable: get_sliver() succeeds
SliceStable ==
    /\ topo.exists
    /\ ~stable
    /\ stable' = TRUE
    /\ UNCHANGED <<topo, user_data, interfaces, if_data, handles, lock, th,
                   rs_in, rs_out, vl_in, vl_out>>

\* Membership and type: every factory, add/remove over all interfaces, route
\* hops, config and the instantiated flag.
Next ==
    \/ NewL2Network(NewLists)
    \/ NewL3Network(NewLists)
    \/ NewPortMirrorService
    \/ \E i \in Ifaces : AddInterface(i)
    \/ \E i \in Ifaces : RemoveInterface(i)
    \/ SetL2RouteHops
    \/ Config
    \/ SetInstantiated(TRUE)
    \/ SliceStable

Spec == Init /\ [][Next]_vars

\* Address allocation: a service created empty, the allocator's operations and
\* add/remove of the interfaces that carry an address request.
AddrIfaces == {"a", "b"}

NextAddr ==
    \/ NewL2Network({<<>>})
    \/ NewL3Network({<<>>})
    \/ \E i \in AddrIfaces : AddInterface(i)
    \/ \E i \in AddrIfaces : RemoveInterface(i)
    \/ Config
    \/ SetGateway(SliverGateway)
    \/ SetSubnet
    \/ SetInstantiated(TRUE)
    \/ \E a \in AddrInputs : SetAllocatedIp(a)
    \/ \E a \in AddrInputs \cup {None} : AllocateIp(a)
    \/ \E a \in AddrInputs : FreeIp(a)
    \/ SliceStable

SpecAddr == Init /\ [][NextAddr]_vars

(***************************************************************************)
(* The resolver as a function: any argument list, then one call.           *)
(***************************************************************************)
InitResolver ==
    /\ topo = IdleTopo
    /\ user_data = NoUserData
    /\ interfaces = <<>>
    /\ if_data = [i \in Ifaces |-> IfaceInit(i)]
    /\ stable = FALSE
    /\ NoThreads
    /\ rs_in \in [interfaces : ResolverLists, ero_enabled : BOOLEAN]
    /\ rs_out = NotRun
    /\ NoValidator

Resolve ==
    /\ rs_out = NotRun
    /\ rs_out' = calculate_l2_nstype(rs_in.interfaces, rs_in.ero_enabled)
    /\ UNCHANGED <<topo, user_data, interfaces, if_data, stable, handles, lock, th,
                   rs_in, vl_in, vl_out>>

SpecResolver == InitResolver /\ [][Resolve]_vars

(***************************************************************************)
(* The validator as a function: any type and any list of at most           *)
(* MaxValidatorIfaces interfaces of the nodes below, then one call.        *)
(* A node has one site and one host pin (or none); a facility port has no  *)
(* NIC_Basic interface.                                                    *)
(***************************************************************************)
MaxValidatorIfaces == 3

ValidatorNodes == {"v1", "v2", "v3", "v4", "v5", "v6", "v7", "vf"}

ValidatorNode(n) ==
    CASE n = "v1" -> [site |-> "s1", host |-> NoHost, facility |-> FALSE]
      [] n = "v2" -> [site |-> "s1", host |-> NoHost, facility |-> FALSE]
      [] n = "v3" -> [site |-> "s1", host |-> "h1", facility |-> FALSE]
      [] n = "v4" -> [site |-> "s1", host |-> "h1", facility |-> FALSE]
      [] n = "v5" -> [site |-> "s2", host |-> NoHost, facility |-> FALSE]
      [] n = "v6" -> [site |-> "s2", host |-> "h2", facility |-> FALSE]
      [] n = "v7" -> [site |-> "s3", host |-> NoHost, facility |-> FALSE]
      [] n = "vf" -> [site |-> "s2", host |-> NoHost, facility |-> TRUE]

ValidatorIface ==
    {[site |-> ValidatorNode(n).site, node |-> n, model |-> m,
      facility |-> ValidatorNode(n).facility, host |-> ValidatorNode(n).host] :
        <<n, m>> \in {p \in ValidatorNodes \X Models :
                         ValidatorNode(p[1]).facility => p[2] # "NIC_Basic"}}

ValidatorLists == UNION {[1 .. n -> ValidatorIface] : n \in 0 .. MaxValidatorIfaces}

ValidatorTypes == L2Types \cup {"PortMirror", "FABNetv4", NoType}

InitValidator ==
    /\ topo = IdleTopo
    /\ user_data = NoUserData
    /\ interfaces = <<>>
    /\ if_data = [i \in Ifaces |-> IfaceInit(i)]
    /\ stable = FALSE
    /\ NoThreads
    /\ NoResolver
    /\ vl_in \in [type : ValidatorTypes, interfaces : ValidatorLists]
    /\ vl_out = NotValidated

Validate ==
    /\ vl_out = NotValidated
    /\ vl_out' = validate_nstype(vl_in.type, vl_in.interfaces)
    /\ UNCHANGED <<topo, user_data, interfaces, if_data, stable, handles, lock, th,
                   rs_in, rs_out, vl_in>>

SpecValidator == InitValidator /\ [][Validate]_vars

(***************************************************************************)
(* Concurrent callers of allocate_ip / free_ip.  Each thread makes one     *)
(* call through a handle; a handle is a NetworkService instance, the one   *)
(* the factory returned or one made by get_network_services, and owns the  *)
(* threading.Lock its __init__ created.  The service is an L3 service      *)
(* after config() on a stable slice.                                       *)
(***************************************************************************)
BaseWorld == [topo |-> IdleTopo, user_data |-> NoUserData, interfaces |-> <<>>,
              if_data |-> [i \in Ifaces |-> IfaceInit(i)], stable |-> TRUE]

ConfiguredWorld == config(new_l3network(BaseWorld, <<>>, "IPv4", 1).w)

InitConc ==
    /\ topo = ConfiguredWorld.topo
    /\ user_data = ConfiguredWorld.user_data
    /\ interfaces = ConfiguredWorld.interfaces
    /\ if_data = ConfiguredWorld.if_data
    /\ stable = ConfiguredWorld.stable
    /\ NoThreads
    /\ NoResolver
    /\ NoValidator

\* get_network_services / get_network_service: a new NetworkService for the
\* same FIM object, with a lock of its own
GetNetworkService ==
    /\ \E h \in Handles \ handles : handles' = handles \cup {h}
    /\ UNCHANGED <<topo, user_data, interfaces, if_data, stable, lock, th,
                   rs_in, rs_out, vl_in, vl_out>>

Shared == <<topo, interfaces, if_data, stable, handles, rs_in, rs_out, vl_in, vl_out>>

\* a thread enters allocate_ip(addr) or free_ip(addr) on handle h
CallAllocateIp(t) ==
    /\ th[t].pc = "idle"
    /\ \E h \in handles, a \in {None, SubnetBase + 2} :
          th' = [th EXCEPT ![t] = [@ EXCEPT !.pc = "acquire", !.h = h,
                                            !.op = "allocate_ip", !.addr = a]]
    /\ UNCHANGED <<user_data, lock>>
    /\ UNCHANGED Shared

CallFreeIp(t) ==
    /\ th[t].pc = "idle"
    /\ \E h \in handles, a \in {SliverGateway, SubnetBase + 2} :
          th' = [th EXCEPT ![t] = [@ EXCEPT !.pc = "acquire", !.h = h,
                                            !.op = "free_ip", !.addr = a]]
    /\ UNCHANGED <<user_data, lock>>
    /\ UNCHANGED Shared

\* self.lock.acquire()
Acquire(t) ==
    /\ th[t].pc = "acquire"
    /\ lock[th[t].h] = NoThread
    /\ lock' = [lock EXCEPT ![th[t].h] = t]
    /\ th' = [th EXCEPT ![t].pc = "read"]
    /\ UNCHANGED user_data
    /\ UNCHANGED Shared

\* get_subnet() and get_allocated_ips(), then the choice of the address
\* (allocate_ip) or of the new list (free_ip)
ReadAllocated(t) ==
    /\ th[t].pc = "read"
    /\ LET allocated_ips == get_allocated_ips(World)
           subnet == get_subnet(World)
           addr == th[t].addr
           host == IF Truthy(addr)
                   THEN (IF ~In(addr, allocated_ips) THEN addr ELSE None)
                   ELSE IF IsNetworkObject(subnet)
                   THEN FirstFree(subnet, network_address(subnet), allocated_ips)
                   ELSE None
       IN  IF th[t].op = "allocate_ip"
           THEN th' = [th EXCEPT ![t] = [@ EXCEPT
                          !.pc = IF host = None THEN "release" ELSE "set",
                          !.host = host]]
           ELSE th' = [th EXCEPT ![t] = [@ EXCEPT
                          !.pc = "set",
                          !.allocated_ips = IF In(addr, allocated_ips)
                                            THEN RemoveFirst(allocated_ips, addr)
                                            ELSE allocated_ips]]
    /\ UNCHANGED <<user_data, lock>>
    /\ UNCHANGED Shared

\* where a raise inside the critical section would go without try/finally
RaisePc_NoFinally == "done"

\* where a raise inside the critical section goes: the finally clause
RaisePc == "release"

\* set_allocated_ip / set_allocated_ips read the blob again and change their copy
SetRead(t) ==
    /\ th[t].pc = "set"
    /\ LET fd == get_fablib_data(World)
       IN  IF th[t].op = "allocate_ip"
           THEN IF ~(fd.sub /\ fd.has_ips)
                THEN th' = [th EXCEPT ![t] = [@ EXCEPT !.pc = RaisePc,
                                                       !.exc = "KeyError"]]
                ELSE th' = [th EXCEPT ![t] = [@ EXCEPT
                               !.pc = "write",
                               !.fd = [fd EXCEPT !.ips = Append(@, Str(th[t].host))]]]
           ELSE th' = [th EXCEPT ![t] = [@ EXCEPT
                          !.pc = "write",
                          !.fd = [fd EXCEPT
                                    !.sub = TRUE, !.has_ips = TRUE,
                                    !.ips = [k \in DOMAIN th[t].allocated_ips |->
                                                Str(th[t].allocated_ips[k])]]]]
    /\ UNCHANGED <<user_data, lock>>
    /\ UNCHANGED Shared

\* set_fablib_data(fablib_data): the copy is persisted
WriteBlob(t) ==
    /\ th[t].pc = "write"
    /\ user_data' = set_fablib_data(World, th[t].fd).user_data
    /\ th' = [th EXCEPT ![t] = [@ EXCEPT
                 !.pc = "release",
                 !.ret = IF th[t].op = "allocate_ip" THEN th[t].host ELSE None]]
    /\ UNCHANGED lock
    /\ UNCHANGED Shared

\* the lock table that is left when the release is missing
ReleaseLock_Held(l, h) == l

\* self.lock.release()
ReleaseLock(l, h) == [l EXCEPT ![h] = NoThread]

\* finally: self.lock.release(); the caller goes on where allocate_ip or
\* free_ip was called from (cont), or ends when the body raised
Release(t) ==
    /\ th[t].pc = "release"
    /\ lock' = ReleaseLock(lock, th[t].h)
    /\ th' = [th EXCEPT ![t].pc = IF th[t].exc # NoExc THEN "done" ELSE th[t].cont]
    /\ UNCHANGED user_data
    /\ UNCHANGED Shared

NextConc ==
    \/ GetNetworkService
    \/ \E t \in Threads : CallAllocateIp(t)
    \/ \E t \in Threads : CallFreeIp(t)
    \/ \E t \in Threads : Acquire(t)
    \/ \E t \in Threads : ReadAllocated(t)
    \/ \E t \in Threads : SetRead(t)
    \/ \E t \in Threads : WriteBlob(t)
    \/ \E t \in Threads : Release(t)

SpecConc == InitConc /\ [][NextConc]_vars

(***************************************************************************)
(* The address pool of one service: an instantiated L2 service whose       *)
(* subnet was set to the /29 by set_subnet, then any sequence of           *)
(* allocate_ip(gateway), allocate_ip() and free_ip(addr).                  *)
(***************************************************************************)
PoolGateway == Subnet29Base + 1

PoolWorld ==
    set_subnet(config(new_l2network(BaseWorld, <<>>, NoType, 1).w), Subnet29)

InitPool ==
    /\ topo = PoolWorld.topo
    /\ user_data = PoolWorld.user_data
    /\ interfaces = PoolWorld.interfaces
    /\ if_data = PoolWorld.if_data
    /\ stable = PoolWorld.stable
    /\ NoThreads
    /\ NoResolver
    /\ NoValidator

PoolAllocateIp(a) ==
    /\ topo.exists
    /\ Becomes(allocate_ip(World, a).w)

PoolFreeIp(a) ==
    /\ topo.exists
    /\ Becomes(free_ip(World, a))

NextPool ==
    \/ \E a \in {None, PoolGateway} : PoolAllocateIp(a)
    \/ \E a \in SubnetAddresses(Subnet29) : PoolFreeIp(a)

SpecPool == InitPool /\ [][NextPool]_vars

(***************************************************************************)
(* The blobs a caller hands to set_fablib_data: dicts of JSON values, as   *)
(* every writer of the facade builds them (strings, None, lists of them).  *)
(***************************************************************************)
MaxBlobIps == 2
BlobEntries == {StrNone, Str(1)}
BlobLists == UNION {[1 .. n -> BlobEntries] : n \in 0 .. MaxBlobIps}

Blobs ==
    {[EmptyFD EXCEPT !.instantiated = i, !.mode = m] :
        i \in {"absent", "True", "False"}, m \in {"absent", "manual"}}
    \cup
    {[instantiated |-> i, mode |-> m, sub |-> TRUE, subnet |-> s, gateway |-> g,
      has_ips |-> h, ips |-> l] :
        i \in {"absent", "True", "False"}, m \in {"absent", "manual"},
        s \in {Absent, Str(Subnet29)}, g \in {Absent, None, Str(1)},
        h \in {TRUE}, l \in BlobLists}
    \cup
    {[instantiated |-> i, mode |-> m, sub |-> TRUE, subnet |-> s, gateway |-> g,
      has_ips |-> FALSE, ips |-> <<>>] :
        i \in {"absent", "True", "False"}, m \in {"absent", "manual"},
        s \in {Absent, Str(Subnet29)}, g \in {Absent, None, Str(1)}}

(***************************************************************************)
(* The blob store on its own: a created service whose blob is overwritten  *)
(* by set_fablib_data(x) and edited by set_instantiated and set_gateway.   *)
(***************************************************************************)
BlobWorld == new_l2network(BaseWorld, <<>>, NoType, 1).w

InitBlob ==
    /\ topo = BlobWorld.topo
    /\ user_data = BlobWorld.user_data
    /\ interfaces = BlobWorld.interfaces
    /\ if_data = BlobWorld.if_data
    /\ stable = BlobWorld.stable
    /\ NoThreads
    /\ NoResolver
    /\ NoValidator

BlobSetFablibData(x) ==
    /\ topo.exists
    /\ Becomes(set_fablib_data(World, x))

BlobSetInstantiated(b) ==
    /\ topo.exists
    /\ Becomes(set_instantiated(World, b))

BlobSetGateway(g) ==
    /\ topo.exists
    /\ Becomes(set_gateway(World, g))

NextBlob ==
    \/ \E x \in Blobs : BlobSetFablibData(x)
    \/ \E b \in BOOLEAN : BlobSetInstantiated(b)
    \/ \E g \in {None, PoolGateway} : BlobSetGateway(g)

SpecBlob == InitBlob /\ [][NextBlob]_vars

(***************************************************************************)
(* Deletion: services are created, gain interfaces, are referred to by     *)
(* their interfaces and are deleted.                                       *)
(***************************************************************************)
GetNetwork(i) ==
    /\ topo.exists
    /\ Becomes(get_network(World, i))

Delete ==
    /\ topo.exists
    /\ Becomes(delete(World))

NextDelete ==
    \/ NewL2Network(NewLists)
    \/ NewL3Network(NewLists)
    \/ \E i \in Ifaces : AddInterface(i)
    \/ \E i \in Ifaces : GetNetwork(i)
    \/ Delete

SpecDelete == Init /\ [][NextDelete]_vars

(***************************************************************************)
(* add_interface, remove_interface and set_l2_route_hops step by step, by  *)
(* threads that share the service: the calls into the topology store are   *)
(* steps of their own, allocate_ip and free_ip are the steps of SpecConc.  *)
(***************************************************************************)
LockIfaces == {"a", "b"}

LockWorlds == {new_l2network(BaseWorld, <<"c">>, NoType, 1).w,
               new_l2network(BaseWorld, <<"c", "b">>, NoType, 1).w,
               ConfiguredWorld}

InitLock ==
    /\ \E w \in LockWorlds :
          /\ topo = w.topo
          /\ user_data = w.user_data
          /\ interfaces = w.interfaces
          /\ if_data = w.if_data
          /\ stable = w.stable
    /\ NoThreads
    /\ NoResolver
    /\ NoValidator

Private == <<handles, rs_in, rs_out, vl_in, vl_out>>

CallAddInterface(t) ==
    /\ th[t].pc = "idle"
    /\ \E i \in LockIfaces :
          th' = [th EXCEPT ![t] = [@ EXCEPT !.pc = "add_type", !.iface = i]]
    /\ UNCHANGED <<topo, user_data, interfaces, if_data, stable, lock>>
    /\ UNCHANGED Private

\* add_interface, lines 1206-1229: the PortMirror test, the append to the
\* facade's list, the type of the new list, the L3 site test
AddType(t) ==
    /\ th[t].pc = "add_type"
    /\ IF get_type(World) = "PortMirror"
       THEN /\ th' = [th EXCEPT ![t] = [@ EXCEPT !.pc = "done", !.exc = "Exception"]]
            /\ UNCHANGED interfaces
       ELSE /\ interfaces' = Append(get_interfaces(World).interfaces, th[t].iface)
            /\ IF get_layer(World) = "L2"
               THEN LET r == calculate_l2_nstype(
                                 Attrs(Append(get_interfaces(World).interfaces, th[t].iface)),
                                 topo.ero)
                    IN  IF r.exc # NoExc
                        THEN th' = [th EXCEPT ![t] = [@ EXCEPT !.pc = "done", !.exc = r.exc]]
                        ELSE th' = [th EXCEPT ![t] = [@ EXCEPT !.pc = "add_store",
                                                               !.nstype = r.ret]]
               ELSE IF is_instantiated(World)
                       /\ IfaceAttr(th[t].iface).site # get_site(World)
               THEN th' = [th EXCEPT ![t] = [@ EXCEPT !.pc = "done", !.exc = "Exception"]]
               ELSE th' = [th EXCEPT ![t].pc = "add_alloc"]
    /\ UNCHANGED <<topo, user_data, if_data, stable, lock>>
    /\ UNCHANGED Private

\* lines 1223-1226: __replace_network_service or connect_interface
AddStore(t) ==
    /\ th[t].pc = "add_store"
    /\ LET w == IF get_type(World) # th[t].nstype
                THEN replace_network_service(World, th[t].nstype)
                ELSE connect_interface(World, th[t].iface)
       IN  /\ topo' = w.topo
           /\ user_data' = w.user_data
           /\ interfaces' = w.interfaces
    /\ th' = [th EXCEPT ![t].pc = "add_alloc"]
    /\ UNCHANGED <<if_data, stable, lock>>
    /\ UNCHANGED Private

\* lines 1231-1245: allocate_ip is called when the subnet is set and the
\* interface asks for an address
AddAlloc(t) ==
    /\ th[t].pc = "add_alloc"
    /\ LET addr == if_data[th[t].iface].addr
           auto == if_data[th[t].iface].auto
       IN  IF Truthy(get_subnet(World)) /\ (Truthy(addr) \/ auto)
           THEN th' = [th EXCEPT ![t] = [@ EXCEPT
                          !.pc = "acquire", !.op = "allocate_ip",
                          !.addr = IF Truthy(addr) THEN addr ELSE None,
                          !.cont = "add_finish"]]
           ELSE th' = [th EXCEPT ![t].pc = "add_finish"]
    /\ UNCHANGED <<topo, user_data, interfaces, if_data, stable, lock>>
    /\ UNCHANGED Private

\* lines 1244-1250: the interface's "addr" is written, an L3 service
\* connects the interface
AddFinish(t) ==
    /\ th[t].pc = "add_finish"
    /\ if_data' = IF th[t].op = "allocate_ip"
                  THEN [if_data EXCEPT ![th[t].iface].addr = Str(th[t].ret)]
                  ELSE if_data
    /\ topo' = IF get_layer(World) = "L3"
               THEN connect_interface(World, th[t].iface).topo ELSE topo
    /\ th' = [th EXCEPT ![t].pc = "done"]
    /\ UNCHANGED <<user_data, interfaces, stable, lock>>
    /\ UNCHANGED Private

\* remove_interface, line 1258: free_ip(interface.get_ip_addr())
CallRemoveInterface(t) ==
    /\ th[t].pc = "idle"
    /\ \E i \in LockIfaces \cup {"c"} :
          th' = [th EXCEPT ![t] = [@ EXCEPT
                    !.pc = "acquire", !.op = "free_ip", !.iface = i,
                    !.addr = get_ip_addr(World, i), !.cont = "rm_store"]]
    /\ UNCHANGED <<topo, user_data, interfaces, if_data, stable, lock>>
    /\ UNCHANGED Private

\* lines 1260-1276: the facade's list, the type of the shorter list,
\* __replace_network_service, disconnect_interface
RemoveStore(t) ==
    /\ th[t].pc = "rm_store"
    /\ LET w1 == [get_interfaces(World) EXCEPT !.interfaces = RemoveFirst(@, th[t].iface)]
           r == calculate_l2_nstype(Attrs(w1.interfaces), w1.topo.ero)
           w == IF get_layer(w1) = "L2"
                THEN IF r.exc # NoExc THEN w1
                     ELSE IF get_type(w1) # r.ret
                     THEN disconnect_interface(replace_network_service(w1, r.ret),
                                               th[t].iface)
                     ELSE disconnect_interface(w1, th[t].iface)
                ELSE disconnect_interface(w1, th[t].iface)
       IN  /\ topo' = w.topo
           /\ user_data' = w.user_data
           /\ interfaces' = w.interfaces
    /\ th' = [th EXCEPT ![t].pc = "done"]
    /\ UNCHANGED <<if_data, stable, lock>>
    /\ UNCHANGED Private

CallSetL2RouteHops(t) ==
    /\ th[t].pc = "idle"
    /\ th' = [th EXCEPT ![t].pc = "hops_store"]
    /\ UNCHANGED <<topo, user_data, interfaces, if_data, stable, lock>>
    /\ UNCHANGED Private

\* set_l2_route_hops with a feasible list of hops: type and ERO are set
HopsStore(t) ==
    /\ th[t].pc = "hops_store"
    /\ LET r == set_l2_route_hops(World, TRUE, TRUE)
       IN  /\ topo' = r.w.topo
           /\ interfaces' = r.w.interfaces
           /\ th' = [th EXCEPT ![t] = [@ EXCEPT !.pc = "done", !.exc = r.exc]]
    /\ UNCHANGED <<user_data, if_data, stable, lock>>
    /\ UNCHANGED Private

NextLock ==
    \/ \E t \in Threads : CallAddInterface(t)
    \/ \E t \in Threads : AddType(t)
    \/ \E t \in Threads : AddStore(t)
    \/ \E t \in Threads : AddAlloc(t)
    \/ \E t \in Threads : AddFinish(t)
    \/ \E t \in Threads : CallRemoveInterface(t)
    \/ \E t \in Threads : RemoveStore(t)
    \/ \E t \in Threads : CallSetL2RouteHops(t)
    \/ \E t \in Threads : HopsStore(t)
    \/ \E t \in Threads : CallAllocateIp(t)
    \/ \E t \in Threads : Acquire(t)
    \/ \E t \in Threads : ReadAllocated(t)
    \/ \E t \in Threads : SetRead(t)
    \/ \E t \in Threads : WriteBlob(t)
    \/ \E t \in Threads : Release(t)

SpecLock == InitLock /\ [][NextLock]_vars

\* the steps of thread t once it has made its call
Run(t) ==
    \/ AddType(t) \/ AddStore(t) \/ AddAlloc(t) \/ AddFinish(t)
    \/ RemoveStore(t) \/ HopsStore(t)
    \/ Acquire(t) \/ ReadAllocated(t) \/ SetRead(t) \/ WriteBlob(t) \/ Release(t)

\* every thread that can take a step eventually takes one
SpecLockFair == SpecLock /\ \A t \in Threads : WF_vars(Run(t))

(***************************************************************************)
(* Blob updates next to the allocator: set_gateway and set_instantiated    *)
(* read the blob, change their copy and persist it, without the lock.      *)
(***************************************************************************)
OtherGateway == SubnetBase + 2

CallSetGateway(t) ==
    /\ th[t].pc = "idle"
    /\ th' = [th EXCEPT ![t] = [@ EXCEPT !.pc = "upd_read", !.op = "set_gateway",
                                        !.addr = OtherGateway]]
    /\ UNCHANGED <<user_data, lock>>
    /\ UNCHANGED Shared

CallSetInstantiated(t) ==
    /\ th[t].pc = "idle"
    /\ th' = [th EXCEPT ![t] = [@ EXCEPT !.pc = "upd_read", !.op = "set_instantiated"]]
    /\ UNCHANGED <<user_data, lock>>
    /\ UNCHANGED Shared

\* fablib_data = self.get_fablib_data(), then the change of the copy:
\* set_gateway(addr) or set_instantiated(False)
UpdateRead(t) ==
    /\ th[t].pc = "upd_read"
    /\ LET fd == get_fablib_data(World)
       IN  th' = [th EXCEPT ![t] = [@ EXCEPT
                     !.pc = "upd_write",
                     !.fd = IF th[t].op = "set_gateway"
                            THEN [fd EXCEPT !.sub = TRUE, !.gateway = Str(th[t].addr)]
                            ELSE [fd EXCEPT !.instantiated = "False"]]]
    /\ UNCHANGED <<user_data, lock>>
    /\ UNCHANGED Shared

\* self.set_fablib_data(fablib_data)
UpdateWrite(t) ==
    /\ th[t].pc = "upd_write"
    /\ user_data' = set_fablib_data(World, th[t].fd).user_data
    /\ th' = [th EXCEPT ![t].pc = "done"]
    /\ UNCHANGED lock
    /\ UNCHANGED Shared

NextRace ==
    \/ \E t \in Threads : CallAllocateIp(t)
    \/ \E t \in Threads : CallFreeIp(t)
    \/ \E t \in Threads : CallSetGateway(t)
    \/ \E t \in Threads : CallSetInstantiated(t)
    \/ \E t \in Threads : Acquire(t)
    \/ \E t \in Threads : ReadAllocated(t)
    \/ \E t \in Threads : SetRead(t)
    \/ \E t \in Threads : WriteBlob(t)
    \/ \E t \in Threads : Release(t)
    \/ \E t \in Threads : UpdateRead(t)
    \/ \E t \in Threads : UpdateWrite(t)

SpecRace == InitConc /\ [][NextRace]_vars

(***************************************************************************)
(*                               Properties                                *)
(***************************************************************************)

\* a thread is between lock.acquire() and lock.release()
InCriticalSection(t) == th[t].pc \in {"read", "set", "write", "release"}

\* C1: the read-modify-persist sections of two allocate/free calls on the
\* service never overlap, whatever handle each caller uses.
C1_MutualExclusion ==
    \A t1, t2 \in Threads :
        t1 # t2 => ~(InCriticalSection(t1) /\ InCriticalSection(t2))

\* the thread finished an allocate_ip() call without an explicit address
AllocatedByCall(t) ==
    /\ th[t].pc = "done"
    /\ th[t].op = "allocate_ip"
    /\ th[t].addr = None
    /\ th[t].ret # None

NoFreeCalled == \A t \in Threads : th[t].op # "free_ip"

\* C2: with only allocate() calls running, no two calls return the same
\* address, and once all have finished every returned address is persisted.
C2_ConcurrentAllocateDistinct ==
    NoFreeCalled =>
        /\ \A t1, t2 \in Threads :
              (t1 # t2 /\ AllocatedByCall(t1) /\ AllocatedByCall(t2))
                  => th[t1].ret # th[t2].ret
        /\ (\A t \in Threads : AllocatedByCall(t))
              => \A t \in Threads : In(th[t].ret, get_allocated_ips(World))

\* the stored allocated_ips list
StoredIps == get_fablib_data(World).ips

\* C3: the persisted allocated-address list contains no address twice.
C3_NoDuplicateAllocated ==
    \A j, k \in DOMAIN StoredIps : j # k => StoredIps[j] # StoredIps[k]

HostRange == (SubnetBase + 1) .. (SubnetBase + SubnetSize - 2)

AllInHostRange(w) ==
    \A k \in DOMAIN get_fablib_data(w).ips :
        /\ IsAddress(get_fablib_data(w).ips[k])
        /\ ip_address(get_fablib_data(w).ips[k]) \in HostRange

\* C4: on a service with a subnet whose allocated addresses are host
\* addresses of the subnet, allocate() and allocate(requested) leave every
\* allocated address a host address of the subnet.
C4_AllocatedInHostRange ==
    (topo.exists /\ get_subnet(World) = SubnetObj /\ AllInHostRange(World)) =>
        \A a \in AddrInputs \cup {None} :
            AllInHostRange(allocate_ip(World, a).w)

\* C5: on an L3 service whose blob holds a gateway, the gateway is in the
\* allocated-address set.
C5_GatewayAllocated ==
    (topo.exists /\ get_layer(World) = "L3"
        /\ get_fablib_data(World).gateway # Absent
        /\ IsAddress(get_fablib_data(World).gateway))
    => In(ip_address(get_fablib_data(World).gateway), get_allocated_ips(World))

\* C6: the type of an L2 service is the type the resolver gives for the
\* interfaces attached to it and its explicit-route flag.
C6_TypeMatchesResolver ==
    (topo.exists /\ topo.type \in L2Types) =>
        LET r == calculate_l2_nstype(Attrs(topo.interface_list), topo.ero)
        IN  r.exc = NoExc /\ r.ret = topo.type

\* C7: a PortMirror service stays a PortMirror service with the interfaces
\* it was created with.
C7_PortMirrorFixed ==
    [][topo.type = "PortMirror" =>
          (topo'.type = "PortMirror" /\ topo'.interface_list = topo.interface_list)]_vars

\* add_interface up to line 1215: the interface is appended to the list
AddCached(w, i) ==
    LET w0 == get_interfaces(w) IN [w0 EXCEPT !.interfaces = Append(@, i)]

AddResolved(w, i) ==
    calculate_l2_nstype(Attrs(AddCached(w, i).interfaces), w.topo.ero)

\* add_interface(i) replaces the service object by one of another type
AddMigrates(w, i) ==
    /\ get_type(w) # "PortMirror"
    /\ get_layer(w) = "L2"
    /\ AddResolved(w, i).exc = NoExc
    /\ AddResolved(w, i).ret # get_type(w)

\* remove_interface up to line 1263: the address is freed and the interface
\* taken off the list
RemoveCached(w, i) ==
    LET w0 == get_interfaces(free_ip(w, get_ip_addr(w, i)))
    IN  [w0 EXCEPT !.interfaces = RemoveFirst(@, i)]

RemoveResolved(w, i) ==
    calculate_l2_nstype(Attrs(RemoveCached(w, i).interfaces), w.topo.ero)

\* remove_interface(i) replaces the service object by one of another type
RemoveMigrates(w, i) ==
    /\ get_layer(w) = "L2"
    /\ RemoveResolved(w, i).exc = NoExc
    /\ RemoveResolved(w, i).ret # get_type(w)

\* the store holds the service with this type and exactly these interfaces
StoreHolds(w, type, members) ==
    /\ w.topo.exists
    /\ w.topo.type = type
    /\ Range(w.topo.interface_list) = members
    /\ Len(w.topo.interface_list) = Cardinality(members)

\* C8: after a successful migration by add_interface or remove_interface the
\* store holds the service with the resolved type and exactly the interfaces
\* attached before the call plus (minus) the one added (removed), and the
\* new object carries the blob the old object had just before the migration.
C8_MigrationPreserves ==
    topo.exists =>
        \A i \in Ifaces :
            /\ (AddMigrates(World, i) /\ add_interface(World, i).exc = NoExc) =>
                  /\ StoreHolds(add_interface(World, i).w,
                                AddResolved(World, i).ret,
                                Range(topo.interface_list) \cup {i})
                  /\ replace_network_service(AddCached(World, i),
                         AddResolved(World, i).ret).user_data = user_data
            /\ (RemoveMigrates(World, i) /\ remove_interface(World, i).exc = NoExc) =>
                  /\ StoreHolds(remove_interface(World, i).w,
                                RemoveResolved(World, i).ret,
                                Range(topo.interface_list) \ {i})
                  /\ remove_interface(World, i).w.user_data
                         = RemoveCached(World, i).user_data

\* add_interface(i) is rejected by the resolver (third site) or by the
\* single-site rule of an instantiated L3 service
AddRejected(w, i) ==
    /\ get_type(w) # "PortMirror"
    /\ \/ get_layer(w) = "L2" /\ AddResolved(w, i).exc # NoExc
       \/ get_layer(w) = "L3" /\ is_instantiated(w)
              /\ IfaceAttr(i).site # get_site(w)

\* C9: a rejected add_interface leaves the reported interface list, the
\* attached interfaces, the type and the blob as they were.
C9_RejectedAddUnchanged ==
    topo.exists =>
        \A i \in Ifaces :
            AddRejected(World, i) =>
                /\ add_interface(World, i).exc # NoExc
                /\ get_interfaces(add_interface(World, i).w).interfaces
                       = get_interfaces(World).interfaces
                /\ add_interface(World, i).w.topo = topo
                /\ add_interface(World, i).w.user_data = user_data

(***************************************************************************)
(* The table of section 4.2, from the interface set as a whole.            *)
(***************************************************************************)
FacilityCount(ifs) == Cardinality({k \in DOMAIN ifs : ifs[k].facility})
BasicCount(ifs) == Cardinality({k \in DOMAIN ifs : ifs[k].model = "NIC_Basic"})

TableType(ifs, ero) ==
    IF Cardinality(SitesOf(ifs)) <= 1 THEN "L2Bridge"
    ELSE IF (FacilityCount(ifs) = 1 \/ ero) /\ BasicCount(ifs) = 0 THEN "L2PTP"
    ELSE "L2STS"

\* C10: for at most two sites the resolver returns the type of the table,
\* never an undefined result and never an error.
C10_ResolverMatchesTable ==
    (rs_out # NotRun /\ Cardinality(SitesOf(rs_in.interfaces)) <= 2) =>
        rs_out = [ret |-> TableType(rs_in.interfaces, rs_in.ero_enabled),
                  exc |-> NoExc]

\* two sites, two facility interfaces, no explicit route: flexible multi-point
C10_Witness ==
    /\ rs_out # NotRun
    /\ Cardinality(SitesOf(rs_in.interfaces)) = 2
    /\ FacilityCount(rs_in.interfaces) = 2
    /\ BasicCount(rs_in.interfaces) = 0
    /\ ~rs_in.ero_enabled
    /\ rs_out.ret = "L2STS"

(***************************************************************************)
(* Resolver and validator claims.                                          *)
(***************************************************************************)
ResolverRaises == [ret |-> NoType, exc |-> "Exception"]

\* lists of three different interfaces of the slice on three sites
ThreeSiteLists ==
    {l \in [1 .. 3 -> Ifaces] :
        /\ \A j, k \in DOMAIN l : j # k => l[j] # l[k]
        /\ Cardinality(SitesOf(Attrs(l))) >= 3}

SpansThreeSites(list) == Cardinality(SitesOf(Attrs(list))) >= 3

\* C11: for three or more sites the resolver raises, whatever the facility
\* count, the NIC models and the explicit-route flag; new_l2network with an
\* inferred type, add_interface and remove_interface on an L2 service fail
\* when the interface list they resolve spans three or more sites.
C11_ThreeSitesFail ==
    /\ ~topo.exists =>
          /\ \A ifs \in ResolverLists, ero \in BOOLEAN :
                Cardinality(SitesOf(ifs)) >= 3
                    => calculate_l2_nstype(ifs, ero) = ResolverRaises
          /\ \A list \in ThreeSiteLists :
                new_l2network(World, list, NoType, 1) = Fail(World, "Exception")
    /\ (topo.exists /\ topo.type \in L2Types) =>
          \A i \in Ifaces :
              /\ SpansThreeSites(AddCached(World, i).interfaces)
                    => /\ add_interface(World, i).exc = "Exception"
                       /\ add_interface(World, i).w.topo = topo
              /\ SpansThreeSites(RemoveCached(World, i).interfaces)
                    => /\ remove_interface(World, i).exc = "Exception"
                       /\ remove_interface(World, i).w.topo = topo

\* an L2 service whose facade list holds an interface of a third site: the
\* add_interface that put it there was rejected by the resolver
C11_Witness ==
    /\ topo.exists
    /\ topo.type \in L2Types
    /\ SpansThreeSites(interfaces)
    /\ ~SpansThreeSites(topo.interface_list)

\* the case of C12: two interfaces, two sites, no NIC_Basic, no explicit route
TwoByTwo ==
    /\ rs_out # NotRun
    /\ Len(rs_in.interfaces) = 2
    /\ Cardinality(SitesOf(rs_in.interfaces)) = 2
    /\ BasicCount(rs_in.interfaces) = 0
    /\ ~rs_in.ero_enabled

\* C12 as stated: with fewer than two facility interfaces (zero or one) the
\* resolver returns L2PTP.
C12_TwoByTwoIsPtp ==
    (TwoByTwo /\ FacilityCount(rs_in.interfaces) < 2)
        => rs_out = [ret |-> "L2PTP", exc |-> NoExc]

\* C12 amended: the resolver returns L2PTP with exactly one facility
\* interface and L2STS with none or two.
C12_TwoByTwoAmended ==
    TwoByTwo =>
        rs_out = [ret |-> IF FacilityCount(rs_in.interfaces) = 1
                          THEN "L2PTP" ELSE "L2STS",
                  exc |-> NoExc]

\* two interfaces on two sites, none on a facility port: L2STS
C12_Witness ==
    /\ TwoByTwo
    /\ FacilityCount(rs_in.interfaces) = 0
    /\ rs_out.ret = "L2STS"

\* C13: the type and the attached interfaces of an L2 service always pass
\* the validator.
C13_StateValidates ==
    (topo.exists /\ topo.type \in L2Types) =>
        validate_nstype(topo.type, Attrs(topo.interface_list)) = Valid

\* C14 as stated: for a type outside the three L2 types the validator fails
\* for every interface list, the empty one included.
C14_UnknownTypeFails ==
    (vl_out # NotValidated /\ vl_in.type \notin L2Types)
        => vl_out.exc = "Exception"

\* C14 amended: for a type outside the three L2 types the validator fails
\* for every non-empty interface list and succeeds for the empty list.
C14_UnknownTypeAmended ==
    (vl_out # NotValidated /\ vl_in.type \notin L2Types) =>
        vl_out = IF Len(vl_in.interfaces) = 0 THEN Valid
                 ELSE Raise(<< <<"unknown", vl_in.type>> >>)

\* an unknown type with the empty list validates
C14_Witness ==
    /\ vl_in.type = "PortMirror"
    /\ vl_in.interfaces = <<>>
    /\ vl_out = Valid

\* non-facility nodes of a site among the interfaces' nodes
NodesAt(ifs, site) ==
    {ifs[k].node : k \in {j \in DOMAIN ifs : ifs[j].site = site /\ ~ifs[j].facility}}

\* interfaces of the host-pin case: NIC_Basic, node without host pin, on a
\* site with more than one non-facility node
Unpinned(ifs) ==
    {k \in DOMAIN ifs :
        /\ ifs[k].model = "NIC_Basic"
        /\ ifs[k].host = NoHost
        /\ Cardinality(NodesAt(ifs, ifs[k].site)) > 1}

\* C15: validating an L2STS service of more than two interfaces fails with
\* a host-pin violation for each NIC_Basic interface of an unpinned node on
\* a site with more than one non-facility node, and new_l2network fails
\* for the same list.
C15_HostPinViolation ==
    (vl_out # NotValidated /\ vl_in.type = "L2STS"
        /\ Len(vl_in.interfaces) > 2 /\ Unpinned(vl_in.interfaces) # {}) =>
        /\ vl_out.exc = "Exception"
        /\ \A k \in Unpinned(vl_in.interfaces) :
              In(<<"unbound", vl_in.interfaces[k].node>>, vl_out.reasons)
        /\ new_l2network_check("L2STS", vl_in.interfaces).exc = "Exception"
        /\ calculate_l2_nstype(vl_in.interfaces, FALSE).ret = "L2STS"
              => new_l2network_check(NoType, vl_in.interfaces).exc = "Exception"

\* A and B NIC_Basic on two unpinned nodes of s1, C on s2
C15_Witness ==
    /\ vl_in.type = "L2STS"
    /\ Len(vl_in.interfaces) = 3
    /\ vl_in.interfaces[1].node = "v1" /\ vl_in.interfaces[1].model = "NIC_Basic"
    /\ vl_in.interfaces[2].node = "v2" /\ vl_in.interfaces[2].model = "NIC_Basic"
    /\ vl_in.interfaces[3].site = "s2"
    /\ vl_out.exc = "Exception"
    /\ In(<<"unbound", "v1">>, vl_out.reasons)

(***************************************************************************)
(* A third interface on a two-interface L2PTP service.                     *)
(***************************************************************************)
\* the facade's interface list is unset or lists the attached interfaces
CacheAgrees ==
    \/ interfaces = <<>>
    \/ /\ Range(interfaces) = Range(topo.interface_list)
       /\ Len(interfaces) = Len(topo.interface_list)

TwoInterfacePtp ==
    /\ topo.exists
    /\ topo.type = "L2PTP"
    /\ Len(topo.interface_list) = 2
    /\ Cardinality(Range(topo.interface_list)) = 2
    /\ CacheAgrees

\* interfaces not attached, on one of the sites of the attached interfaces
ThirdInterfaces ==
    {i \in Ifaces \ Range(topo.interface_list) :
        IfaceAttr(i).site \in SitesOf(Attrs(topo.interface_list))}

HostsOf(subnet) ==
    SubnetAddresses(subnet) \ {network_address(subnet),
                               network_address(subnet) + Cardinality(SubnetAddresses(subnet)) - 1}

Exhausted == HostsOf(get_subnet(World)) \subseteq Range(get_allocated_ips(World))

\* C17: on the /29, allocate() returns an address while a host address is
\* free, and once the six host addresses are allocated it returns None,
\* raises nothing and records nothing.
C17_ExhaustedAtCapacity ==
    LET r == allocate_ip(World, None)
    IN  /\ r.exc = NoExc
        /\ Exhausted => (r.ret = None /\ r.w = World)
        /\ ~Exhausted => r.ret \in HostsOf(get_subnet(World))

\* the addresses the stored allocated_ips list holds
StoredAddresses(w) ==
    {ip_address(get_fablib_data(w).ips[k]) :
        k \in {j \in DOMAIN get_fablib_data(w).ips : IsAddress(get_fablib_data(w).ips[j])}}

\* addresses of the subnet, other than the network address, not allocated
FreeAddresses(w) ==
    (SubnetAddresses(get_subnet(w)) \ {network_address(get_subnet(w))})
        \ StoredAddresses(w)

Lowest(S) == CHOOSE x \in S : \A y \in S : x <= y

\* allocate() returns the lowest free address and records it, or None
AllocatesLowest(w) ==
    LET r == allocate_ip(w, None)
    IN  /\ r.exc = NoExc
        /\ IF FreeAddresses(w) = {} THEN r.ret = None /\ r.w = w
           ELSE /\ r.ret = Lowest(FreeAddresses(w))
                /\ StoredAddresses(r.w) = StoredAddresses(w) \cup {r.ret}

\* C18: on a service with a subnet allocate() returns the lowest address,
\* other than the network address, that is not allocated; two successive
\* calls return ascending addresses; after free_ip(addr), allocate()
\* returns addr when addr is the lowest free address.
C18_AllocatesLowestFree ==
    (topo.exists /\ IsNetworkObject(get_subnet(World))) =>
        /\ AllocatesLowest(World)
        /\ LET r1 == allocate_ip(World, None)
               r2 == allocate_ip(r1.w, None)
           IN  (r1.ret # None /\ r2.ret # None) => r1.ret < r2.ret
        /\ \A a \in SubnetAddresses(get_subnet(World)) :
              LET w1 == free_ip(World, a)
              IN  /\ AllocatesLowest(w1)
                  /\ (a \in StoredAddresses(World) /\ a = Lowest(FreeAddresses(w1)))
                        => allocate_ip(w1, None).ret = a

\* C19: free_ip(addr) for an address that is not allocated leaves the blob
\* as it was, and a second free_ip(addr) changes nothing more.
C19_FreeUnallocatedNoChange ==
    topo.exists =>
        \A a \in AddrInputs :
            a \notin StoredAddresses(World) =>
                /\ free_ip(World, a).user_data = user_data
                /\ free_ip(free_ip(World, a), a) = free_ip(World, a)

RouteHopsSucceeds(w) == set_l2_route_hops(w, TRUE, TRUE).exc = NoExc
RouteHopsResult(w) == set_l2_route_hops(w, TRUE, TRUE).w

\* C21: after set_l2_route_hops succeeds with a non-empty hop list the service
\* carries the explicit-route annotation and its type is L2PTP, whatever the
\* facility and baseline-NIC composition of its two interfaces.
C21_RouteHopsForcePtp ==
    (topo.exists /\ RouteHopsSucceeds(World)) =>
        /\ RouteHopsResult(World).topo.ero
        /\ RouteHopsResult(World).topo.type = "L2PTP"

\* C22: on an L3 service that is instantiated, add_interface raises for every
\* interface whose site differs from the service's site and leaves the
\* interfaces attached to the underlying object as they were; on an L3
\* service that is not instantiated the site check never raises, and an add
\* that returns has attached the interface.
C22_L3SiteCheck ==
    (topo.exists /\ get_layer(World) = "L3") =>
        \A i \in Ifaces :
            /\ (is_instantiated(World) /\ IfaceAttr(i).site # get_site(World))
                  => /\ add_interface(World, i).exc = "Exception"
                     /\ add_interface(World, i).w.topo = topo
            /\ ~is_instantiated(World)
                  => /\ add_interface(World, i).exc # "Exception"
                     /\ add_interface(World, i).exc = NoExc
                           => In(i, add_interface(World, i).w.topo.interface_list)

\* an instantiated L3 service with a sliver: an interface of another site is
\* rejected and is not attached before the call, one of the service's site is
\* accepted
C22_Witness ==
    /\ topo.exists /\ get_layer(World) = "L3"
    /\ is_instantiated(World) /\ get_site(World) = SliverSite
    /\ \E i \in Ifaces :
          /\ IfaceAttr(i).site # get_site(World)
          /\ ~In(i, topo.interface_list)
          /\ add_interface(World, i).exc = "Exception"
    /\ \E j \in Ifaces :
          /\ IfaceAttr(j).site = get_site(World)
          /\ ~In(j, topo.interface_list)
          /\ add_interface(World, j).exc = NoExc
          /\ In(j, add_interface(World, j).w.topo.interface_list)

\* add_interface(i) returns and the type, not L2PTP before, is L2PTP after
AddFormsPtp(w, i) ==
    /\ add_interface(w, i).exc = NoExc
    /\ get_type(w) # "L2PTP"
    /\ add_interface(w, i).w.topo.type = "L2PTP"
    /\ Len(add_interface(w, i).w.interfaces) >= 2

\* the VLAN pairing of lines 447-460 has been applied to the first two
\* interfaces of after, whose tags were those of before
VlansPaired(before, after) ==
    LET first == after.interfaces[1]
        second == after.interfaces[2]
        vlan1 == before.if_data[first].vlan
        vlan2 == before.if_data[second].vlan
    IN  /\ (vlan1 = None /\ vlan2 = None)
              => /\ after.if_data[first].vlan = 100
                 /\ after.if_data[second].vlan = 100
        /\ (vlan1 = None /\ vlan2 # None) => after.if_data[first].vlan = vlan2
        /\ (vlan1 # None /\ vlan2 = None) => after.if_data[second].vlan = vlan1

\* C23: whenever add_interface newly forms an L2PTP service, VLAN pairing is
\* applied to its first two interfaces (default tag when neither has one, the
\* other's tag when exactly one has one).
C23_AddFormsPtpPairsVlans ==
    topo.exists =>
        \A i \in Ifaces :
            AddFormsPtp(World, i) => VlansPaired(World, add_interface(World, i).w)

C25_DeleteDetachesFirst ==
    topo.exists =>
        /\ delete_orphan(World).topo.interface_list = <<>>
        /\ \A i \in Ifaces : ~delete_orphan(World).if_data[i].network

MaxCreateIfaces == 3   \* interfaces of a creation request

CreateLists ==
    {l \in UNION {[1 .. n -> Ifaces] : n \in 0 .. MaxCreateIfaces} :
        \A j, k \in DOMAIN l : j # k => l[j] # l[k]}

\* the store, the interfaces' attributes and the metadata are those of World
NothingMutated(w) ==
    /\ w.topo = topo
    /\ w.if_data = if_data
    /\ w.user_data = user_data

\* C26: a creation request that raises (unknown L2 or L3 type string,
\* non-string or unknown mirror direction, missing receiving interface or
\* mirror interface name, failed type resolution or validation) leaves the
\* topology store without a service object, every interface's VLAN tag as it
\* was and the metadata unwritten.
C26_FailedCreationNoMutation ==
    ~topo.exists =>
        /\ \A list \in CreateLists, type \in L2Types \cup {NoType, "L2"} :
              new_l2network(World, list, type, 1).exc # NoExc
                  => NothingMutated(new_l2network(World, list, type, 1).w)
        /\ \A list \in CreateLists, type \in {"IPv4", "IPv6", "L3VPN", "L3"} :
              new_l3network(World, list, type, 1).exc # NoExc
                  => NothingMutated(new_l3network(World, list, type, 1).w)
        /\ \A name_is_str \in BOOLEAN, direction_is_str \in BOOLEAN,
              recv \in {"a", "none"}, direction \in {"rx", "tx", "both", "up"} :
              new_portmirror_service(World, name_is_str, direction_is_str,
                                     recv, direction).exc # NoExc
                  => NothingMutated(new_portmirror_service(World, name_is_str,
                                        direction_is_str, recv, direction).w)

\* a slice without the service after an earlier one left VLAN tags behind,
\* on which each kind of invalid request is refused
C26_Witness ==
    /\ ~topo.exists
    /\ \E i \in Ifaces : if_data[i].vlan = 100
    /\ new_l2network(World, <<"a", "b">>, "L2", 1).exc # NoExc
    /\ new_l2network(World, <<"a", "b", "c">>, NoType, 1).exc # NoExc
    /\ new_l2network(World, <<"c", "k">>, "L2PTP", 1).exc # NoExc
    /\ new_l3network(World, <<"a">>, "L3", 1).exc # NoExc
    /\ new_portmirror_service(World, FALSE, TRUE, "a", "rx").exc # NoExc
    /\ new_portmirror_service(World, TRUE, FALSE, "a", "rx").exc # NoExc
    /\ new_portmirror_service(World, TRUE, TRUE, "none", "rx").exc # NoExc
    /\ new_portmirror_service(World, TRUE, TRUE, "a", "up").exc # NoExc

\* the blob init_fablib_data writes: the two keys and nothing else
FreshBlob == [EmptyFD EXCEPT !.instantiated = "False", !.mode = "manual"]

StartsFresh(w) ==
    /\ w.topo.exists
    /\ get_fablib_data(w) = FreshBlob
    /\ ~is_instantiated(w)

\* C27: a service a factory returns has the blob {instantiated: "False",
\* mode: "manual"} without a subnet, and on a service that is not
\* instantiated add_interface, remove_interface, allocate_ip, free_ip and
\* the type migrations (also through set_l2_route_hops) leave
\* is_instantiated() false; only config and set_instantiated(True) make it
\* true.
C27_StartsAndStaysUninstantiated ==
    /\ ~topo.exists =>
        /\ \A list \in NewLists, type \in L2Types \cup {NoType} :
              new_l2network(World, list, type, 1).exc = NoExc
                  => StartsFresh(new_l2network(World, list, type, 1).w)
        /\ \A list \in NewLists, type \in {"IPv4", "IPv6", "L3VPN"} :
              StartsFresh(new_l3network(World, list, type, 1).w)
        /\ \A direction \in {"rx", "tx", "both"} :
              StartsFresh(new_portmirror_service(World, TRUE, TRUE, "a", direction).w)
    /\ (topo.exists /\ ~is_instantiated(World)) =>
        /\ \A i \in Ifaces :
              /\ ~is_instantiated(add_interface(World, i).w)
              /\ ~is_instantiated(remove_interface(World, i).w)
        /\ \A a \in AddrInputs \cup {None} :
              /\ ~is_instantiated(allocate_ip(World, a).w)
              /\ ~is_instantiated(free_ip(World, a))
        /\ \A t \in L2Types : ~is_instantiated(replace_network_service(World, t))
        /\ ~is_instantiated(set_l2_route_hops(World, TRUE, TRUE).w)
        /\ is_instantiated(config(World))
        /\ is_instantiated(set_instantiated(World, TRUE))

\* a service that is not instantiated, holds an address and changes type
\* when an interface is added
C27_Witness ==
    /\ topo.exists
    /\ ~is_instantiated(World)
    /\ get_allocated_ips(World) # <<>>
    /\ \E i \in Ifaces :
          /\ add_interface(World, i).exc = NoExc
          /\ add_interface(World, i).w.topo.type # topo.type

\* the thread is about to call into the topology store to change the
\* service's type or membership
InStoreCall(t) ==
    \/ th[t].pc \in {"add_store", "rm_store", "hops_store"}
    \/ th[t].pc = "add_finish" /\ get_layer(World) = "L3"

HoldsLock(t) == \E h \in Handles : lock[h] = t

\* C28: a thread that is about to call into the topology store to change
\* the service's type or membership (connect or disconnect an interface,
\* replace the object, set the type) holds no allocator lock, and a thread
\* holds a lock only inside the steps of allocate_ip and free_ip.
C28_NoLockAcrossStoreCalls ==
    \A t \in Threads :
        /\ InStoreCall(t) => ~HoldsLock(t)
        /\ HoldsLock(t) => InCriticalSection(t)

\* a thread has allocated inside add_interface and is about to connect the
\* interface, while another thread holds the lock
C28_Witness ==
    \E t, u \in Threads :
        /\ t # u
        /\ th[t].pc = "add_finish"
        /\ th[t].op = "allocate_ip"
        /\ th[t].ret # None
        /\ InStoreCall(t)
        /\ lock[th[u].h] = u

\* the blob holds what the finished allocate_ip or free_ip call of t did
AllocationKept(t) ==
    /\ (th[t].op = "allocate_ip" /\ th[t].ret # None)
          => In(th[t].ret, get_allocated_ips(World))
    /\ th[t].op = "free_ip" => ~In(th[t].addr, get_allocated_ips(World))

\* the blob holds what the finished set_gateway or set_instantiated call of u did
FieldKept(u) ==
    /\ th[u].op = "set_gateway" => get_fablib_data(World).gateway = Str(th[u].addr)
    /\ th[u].op = "set_instantiated" => get_fablib_data(World).instantiated = "False"

\* C29: when an allocate_ip or free_ip call and a set_gateway or
\* set_instantiated call on the same service have both returned, the blob
\* holds the allocation change and the field change.
C29_NoLostUpdate ==
    \A t, u \in Threads :
        (/\ th[t].pc = "done" /\ th[u].pc = "done"
         /\ th[t].op \in {"allocate_ip", "free_ip"}
         /\ th[u].op \in {"set_gateway", "set_instantiated"})
            => AllocationKept(t) /\ FieldKept(u)

\* the service is not instantiated, or its blob has no subnet entry
SubnetUndefined(w) == ~is_instantiated(w) \/ ~get_fablib_data(w).sub

\* C30: an allocate_ip call that has returned on a service whose subnet is
\* undefined raised nothing and returned None, with and without a requested
\* address, and the caller holds no lock.
C30_UndefinedSubnetAllocatesNothing ==
    \A t \in Threads :
        (/\ th[t].pc = "done"
         /\ th[t].op = "allocate_ip"
         /\ th[t].cont = "done"
         /\ SubnetUndefined(World))
            => /\ th[t].exc = NoExc
               /\ th[t].ret = None
               /\ ~HoldsLock(t)

\* interfaces of the duplicate-host case: NIC_Basic on a pinned node, on a
\* site with more than one non-facility node, whose host an earlier such
\* interface has
RepeatsHost(ifs) ==
    {k \in DOMAIN ifs :
        /\ ifs[k].model = "NIC_Basic"
        /\ ifs[k].host # NoHost
        /\ Cardinality(NodesAt(ifs, ifs[k].site)) > 1
        /\ \E j \in 1 .. (k - 1) :
              /\ ifs[j].model = "NIC_Basic"
              /\ ifs[j].host = ifs[k].host
              /\ Cardinality(NodesAt(ifs, ifs[j].site)) > 1}

CountReason(reasons, r) == Cardinality({k \in DOMAIN reasons : reasons[k] = r})

\* C31: the failure of the validator for an L2STS service carries the site
\* reason exactly when the interfaces do not span two sites and, for more
\* than two interfaces, one reason for each NIC_Basic interface of an
\* unpinned node and one for each NIC_Basic interface repeating a host (on
\* sites with more than one non-facility node), all in the one exception.
C31_AllViolationsReported ==
    (vl_out # NotValidated /\ vl_in.type = "L2STS" /\ Len(vl_in.interfaces) > 0) =>
        /\ (Cardinality(SitesOf(vl_in.interfaces)) # 2)
              <=> In(<<"sites", "L2STS">>, vl_out.reasons)
        /\ (vl_out.exc = "Exception") <=> (vl_out.reasons # <<>>)
        /\ Len(vl_in.interfaces) > 2 =>
              /\ \A n \in ValidatorNodes :
                    CountReason(vl_out.reasons, <<"unbound", n>>)
                       >= Cardinality({k \in Unpinned(vl_in.interfaces) :
                                          vl_in.interfaces[k].node = n})
              /\ \A h \in {"h1", "h2"} :
                    CountReason(vl_out.reasons, <<"duphost", h>>)
                       >= Cardinality({k \in RepeatsHost(vl_in.interfaces) :
                                          vl_in.interfaces[k].host = h})

\* one site only, an unpinned NIC_Basic interface and a repeated host: three
\* reasons in one failure
C31_Witness ==
    /\ vl_in.type = "L2STS"
    /\ Len(vl_in.interfaces) = 3
    /\ Cardinality(SitesOf(vl_in.interfaces)) = 1
    /\ Unpinned(vl_in.interfaces) # {}
    /\ RepeatsHost(vl_in.interfaces) # {}
    /\ vl_out.exc = "Exception"
    /\ Len(vl_out.reasons) = 3

\* the reasons of the host-colocation rule
HostReasons(reasons) ==
    {k \in DOMAIN reasons : reasons[k][1] \in {"unbound", "duphost"}}

\* every site has at most one non-facility node among the interfaces
OneNodePerSite(ifs) ==
    \A s \in Sites : Cardinality(NodesAt(ifs, s)) <= 1

\* C32: an L2STS list of more than two interfaces that spans two sites, each
\* site with at most one non-facility node, validates: no host-pin and no
\* duplicate-host reason, also when a node has several NIC_Basic interfaces.
C32_OneNodePerSiteValidates ==
    (/\ vl_out # NotValidated
     /\ vl_in.type = "L2STS"
     /\ Len(vl_in.interfaces) > 2
     /\ Cardinality(SitesOf(vl_in.interfaces)) = 2
     /\ OneNodePerSite(vl_in.interfaces)) =>
        /\ HostReasons(vl_out.reasons) = {}
        /\ vl_out = Valid

\* C33: a thread that has finished allocate_ip or free_ip, with a value,
\* with None or with an exception, holds no lock, and under fair scheduling
\* every thread waiting for the lock gets it and finishes its call.
C33_LockReleasedAndCallsComplete ==
    /\ [](\A t \in Threads : th[t].pc = "done" => ~HoldsLock(t))
    /\ \A t \in Threads : (th[t].pc = "acquire") ~> (th[t].pc = "done")

\* one call raised inside the critical section, another returned None, and
\* the lock is free
C33_Witness ==
    \E t, u \in Threads :
        /\ t # u
        /\ th[t].pc = "done" /\ th[t].op = "allocate_ip" /\ th[t].exc = "KeyError"
        /\ th[u].pc = "done" /\ th[u].op = "allocate_ip" /\ th[u].exc = NoExc
        /\ th[u].ret = None
        /\ \A h \in Handles : lock[h] = NoThread

\* the addresses the attached interfaces hold
HeldByAttached(w) ==
    {ip_address(w.if_data[i].addr) :
        i \in {j \in Range(w.topo.interface_list) : IsAddress(w.if_data[j].addr)}}

\* C34: config() on an L3 service keeps every stored address, and when the
\* attached interfaces' addresses are all stored before config(), the
\* allocate_ip() after it returns none of them.
C34_ConfigKeepsAllocated ==
    (topo.exists /\ get_layer(World) = "L3") =>
        /\ StoredAddresses(World) \subseteq StoredAddresses(config(World))
        /\ HeldByAttached(World) \subseteq StoredAddresses(World)
              => allocate_ip(config(World), None).ret \notin HeldByAttached(World)

\* C35: remove_interface for an interface that is not attached to the
\* service leaves the stored allocated addresses, the attached interfaces,
\* the type and the service object as they were.
C35_RemoveNonMemberUnchanged ==
    topo.exists =>
        \A i \in Ifaces :
            ~In(i, topo.interface_list) =>
                /\ StoredAddresses(remove_interface(World, i).w) = StoredAddresses(World)
                /\ get_allocated_ips(remove_interface(World, i).w) = get_allocated_ips(World)
                /\ remove_interface(World, i).w.topo = topo

\* C36: on a service that carries an explicit route, add_interface and
\* remove_interface leave the explicit route on the service, also when they
\* replace the service object by one of another type.
C36_EroSurvivesMutation ==
    (topo.exists /\ topo.ero) =>
        \A i \in Ifaces :
            /\ add_interface(World, i).w.topo.ero
            /\ remove_interface(World, i).w.topo.ero

\* get_interfaces() lists exactly the interfaces attached to the service
\* object, each once
ReportsAttached(w) ==
    /\ Range(get_interfaces(w).interfaces) = Range(w.topo.interface_list)
    /\ Len(get_interfaces(w).interfaces)
          = Cardinality(Range(get_interfaces(w).interfaces))

\* C37: on a facade whose reported interface list agrees with the service
\* object, every add_interface and remove_interface call, successful or
\* failed, leaves the reported list equal to the attached interfaces, each
\* once.
C37_ReportedListIsAttached ==
    (topo.exists /\ ReportsAttached(World)) =>
        \A i \in Ifaces :
            /\ ReportsAttached(add_interface(World, i).w)
            /\ ReportsAttached(remove_interface(World, i).w)

\* C38: for a non-empty list on which the resolver returns a type, with the
\* explicit-route flag on or off, the validator for that type either passes
\* or raises with host-pin and duplicate-host reasons only, and so does
\* new_l2network with an inferred type.
C38_ResolverAgreesWithValidator ==
    Len(vl_in.interfaces) > 0 =>
        \A ero_enabled \in BOOLEAN :
            LET r == calculate_l2_nstype(vl_in.interfaces, ero_enabled)
                v == validate_nstype(r.ret, vl_in.interfaces)
            IN  r.exc = NoExc =>
                    /\ r.ret \in L2Types
                    /\ HostReasons(v.reasons) = DOMAIN v.reasons
                    /\ (~ero_enabled /\ v = Valid)
                          => new_l2network_check(NoType, vl_in.interfaces).exc = NoExc

\* the resolver's type for the list is L2STS, the validator was run for it
\* and failed with host reasons
C38_Witness ==
    /\ Len(vl_in.interfaces) = 3
    /\ calculate_l2_nstype(vl_in.interfaces, FALSE) = [ret |-> "L2STS", exc |-> NoExc]
    /\ vl_in.type = "L2STS"
    /\ vl_out.exc = "Exception"
    /\ HostReasons(vl_out.reasons) = DOMAIN vl_out.reasons

\* the VLAN tags the first two interfaces of the list must have after the
\* creation, from the tags they had
PairedVlans(v1, v2) ==
    IF v1 = None /\ v2 = None THEN <<100, 100>>
    ELSE IF v1 = None THEN <<v2, v2>>
    ELSE IF v2 = None THEN <<v1, v1>>
    ELSE <<v1, v2>>

\* C39: when new_l2network creates an L2PTP service from a non-empty list,
\* its first two interfaces carry the paired tags ("100" for both when
\* neither had one, the other's tag when one had one, both unchanged when
\* both had one) and no other interface's tag is changed.
C39_PtpVlanDefaults ==
    ~topo.exists =>
        \A list \in CreateLists, type \in L2Types \cup {NoType} :
            LET r == new_l2network(World, list, type, 1)
            IN  (r.exc = NoExc /\ r.w.topo.type = "L2PTP" /\ Len(list) > 0) =>
                    /\ Len(list) >= 2
                    /\ <<r.w.if_data[list[1]].vlan, r.w.if_data[list[2]].vlan>>
                          = PairedVlans(if_data[list[1]].vlan, if_data[list[2]].vlan)
                    /\ r.w.if_data[list[1]].vlan # None
                    /\ r.w.if_data[list[2]].vlan # None
                    /\ \A i \in Ifaces \ {list[1], list[2]} :
                          r.w.if_data[i].vlan = if_data[i].vlan

\* after an earlier L2PTP service gave b the tag of f and was deleted, a and
\* b are made an L2PTP service: the untagged a takes the tag of b, and f,
\* outside the list, keeps its tag
C39_Witness ==
    /\ ~topo.exists
    /\ if_data["f"].vlan = 200
    /\ if_data["b"].vlan = 200
    /\ if_data["a"].vlan = None
    /\ new_l2network(World, <<"a", "b">>, "L2PTP", 1).exc = NoExc
    /\ new_l2network(World, <<"a", "b">>, "L2PTP", 1).w.topo.type = "L2PTP"
    /\ new_l2network(World, <<"a", "b">>, "L2PTP", 1).w.if_data["a"].vlan = 200
    /\ new_l2network(World, <<"a", "b">>, "L2PTP", 1).w.if_data["f"].vlan = 200

====
